---- MODULE Spec2Model ----
(***************************************************************************)
(* Model of the poker server (src/server.py): the hand evaluator, the      *)
(* cheat detector, the betting round, the round and the game session as    *)
(* they are driven by the host's thread.                                   *)
(*                                                                         *)
(* A card is the index of its code in the unshuffled deck of create_deck:  *)
(* card = 4 * rank + suit, rank 0..12 for "2".."A" (RANK_ORDER), suit 0..3 *)
(* for "s","h","d","c".                                                    *)
(***************************************************************************)
EXTENDS Integers, Sequences, FiniteSets, TLC

\* ------------------------------------------------------------------ bounds
MaxSeats    == 3    \* seats that joined before START
MaxRounds   == 2    \* largest configured number of rounds
MaxRaises   == 2    \* successful BET/RAISE per round
NumShuffles == 2    \* outcomes of random.shuffle that are explored
MaxConns    == 4    \* connections srv.accept returns

\* ------------------------------------------------------- program constants
blind          == 10
DefaultChips   == 1000
DefaultPlayers == 6
DefaultRounds  == 3
IndexError     == 0 - 1   \* score slot of an evaluation that raised IndexError
NoSeat         == 0 - 1   \* no seat is on action

ChipChoices == {51, 1000}       \* starting stacks the host configures
BetAmounts  == {1, 50, 100}     \* amounts of well-formed BET/RAISE messages
BadAmounts  == {0}              \* amounts the server rejects (amount <= 0)
ClaimChoices == {0 - 1, 0, 3}  \* claimed_score; -1 is the default of an absent field

\* ------------------------------------------------------------------ helpers
SeqToSet(s) == {s[i] : i \in DOMAIN s}

Max(S) == CHOOSE x \in S : \A y \in S : x >= y

Min(S) == CHOOSE x \in S : \A y \in S : x <= y

RECURSIVE SumOver(_, _)
SumOver(S, f) ==
    IF S = {} THEN 0
    ELSE LET x == CHOOSE x \in S : TRUE IN f[x] + SumOver(S \ {x}, f)

\* the elements of s at the indices in idx, in the order of s
SubSeqAt(s, idx) ==
    LET F[i \in 0..Len(s)] ==
            IF i = 0 THEN <<>>
            ELSE IF i \in idx THEN Append(F[i - 1], s[i]) ELSE F[i - 1]
    IN F[Len(s)]

\* ------------------------------------------------------------ JSON values
\* The "value" of a lobby command as json.loads returns it: its type t and a
\* payload v.  v is the number of an int, the number the text of a str spells
\* (type "str": text that int() parses, type "text": text that it does not),
\* ten times the number of a float, 1 for true.
JsonValue(t, v) == [t |-> t, v |-> v]

\* no lobby command was read
NoValue == JsonValue("none", 0)

\* the values the host's commands carry: 0 1 2 7 10 21 51, "2", "abc", 6.9,
\* 20.5, true, null
LobbyValues ==
    {JsonValue("int", n) : n \in {0, 1, 2, 7, 10, 21, 51}}
        \cup {JsonValue("str", 2), JsonValue("text", 0), JsonValue("float", 69),
              JsonValue("float", 205), JsonValue("bool", 1), JsonValue("null", 0)}

\* int(val): the integer, or the exception int() raises
py_int(val) ==
    CASE val.t = "int"   -> [ok |-> TRUE, n |-> val.v, err |-> ""]
      [] val.t = "str"   -> [ok |-> TRUE, n |-> val.v, err |-> ""]
      [] val.t = "bool"  -> [ok |-> TRUE, n |-> val.v, err |-> ""]
      [] val.t = "float" -> [ok |-> TRUE, n |-> val.v \div 10, err |-> ""]
      [] val.t = "text"  -> [ok |-> FALSE, n |-> 0, err |-> "ValueError"]
      [] OTHER           -> [ok |-> FALSE, n |-> 0, err |-> "TypeError"]

\* ------------------------------------------------------------------ deck
Card(r, s) == 4 * r + s

\* the list comprehension of create_deck before the shuffle
OrderedDeck == [i \in 1..52 |-> i - 1]

\* Cards that random.shuffle leaves at the end of the list (the end pop()
\* takes from: the last card of a row is dealt first).  Each row is read
\* right to left: two cards for every seat in join order, then the board.
Tops == <<
    \* seat 0: 2s 7h, seat 1: Ks Qs, board Kh 3d 8c 9s 4h
    << Card(11,3), Card(12,0), Card(3,2), Card(2,1), Card(7,0), Card(6,3), Card(1,2), Card(11,1),
       Card(10,0), Card(11,0), Card(5,1), Card(0,0) >>,
    \* seat 0: 2s 2h, seat 1: 3d 3c, board 9s 9h Kd Kc 5s
    << Card(12,3), Card(12,2), Card(10,3), Card(3,0), Card(11,3), Card(11,2), Card(7,1), Card(7,0),
       Card(1,3), Card(1,2), Card(0,1), Card(0,0) >>,
    \* seat 0: Ah 9h, seat 1: 8s 9d, seat 2: Kd 2c, board Ks 3c 5h 6h 7h
    << Card(0,0), Card(5,1), Card(4,1), Card(3,1), Card(1,3), Card(11,0), Card(0,3), Card(11,2),
       Card(7,2), Card(6,0), Card(7,1), Card(12,1) >>,
    \* seat 0: As Ah, seat 1: 7d 2c, board 5s 9h Jd 3c 8s
    << Card(4,1), Card(12,2), Card(2,2), Card(6,0), Card(1,3), Card(9,2), Card(7,1), Card(3,0),
       Card(0,3), Card(5,2), Card(12,1), Card(12,0) >>,
    \* seat 0: Ah 9h, seat 1: 8s 9d, board Ks 3c 5h 6h 7h
    << Card(0,0), Card(0,1), Card(10,2), Card(5,1), Card(4,1), Card(3,1), Card(1,3), Card(11,0),
       Card(7,2), Card(6,0), Card(7,1), Card(12,1) >>,
    \* seat 0: 4s 4h, seat 1: Jc 10c, board 4d 4c Qc Kc Ac
    << Card(0,1), Card(1,0), Card(5,2), Card(12,3), Card(11,3), Card(10,3), Card(2,3), Card(2,2),
       Card(8,3), Card(9,3), Card(2,1), Card(2,0) >>
>>

\* one outcome of random.shuffle: a permutation of the 52 cards
Shuffled(k) ==
    LET top  == Tops[k]
        rest == SelectSeq(OrderedDeck, LAMBDA c : c \notin SeqToSet(top))
    IN rest \o top

\* the outcomes of random.shuffle that are explored at a table of n seats:
\* the first NumShuffles rows for two seats, the row after them for more
Shuffles(n) ==
    IF n <= 2 THEN 1..Min({NumShuffles, Len(Tops)}) ELSE {Min({NumShuffles + 1, Len(Tops)})}

create_deck(k) == Shuffled(k)

\* --------------------------------------------------------- hand evaluator
HandNames == << "High Card", "One Pair", "Two Pair", "Three of a Kind", "Straight",
                "Flush", "Full House", "Four of a Kind", "Straight Flush", "Royal Flush" >>

Scored(n) == << n, HandNames[n + 1] >>

Raised == << IndexError, "IndexError" >>

rv(card) == card \div 4

suit(card) == card % 4

\* the values in ascending order
RECURSIVE SortedAsc(_, _, _)
SortedAsc(v, D, c) ==
    IF v = 0 THEN <<>>
    ELSE SortedAsc(v - 1, D, c) \o [i \in 1..Cardinality({k \in D : c[k] = v}) |-> v]

\* sorted(c.values(), reverse=True) for a dict c over the keys D whose values
\* are in 1..v: the values from v down to 1, each as often as it occurs
RECURSIVE SortedDesc(_, _, _)
SortedDesc(v, D, c) ==
    IF v = 0 THEN <<>>
    ELSE [i \in 1..Cardinality({k \in D : c[k] = v}) |-> v] \o SortedDesc(v - 1, D, c)

\* (score, label) of a list of cards; a list shorter than five cards makes
\* cnt[0] or cnt[1] raise IndexError where the list has no such element
score_five(hand) ==
    LET rset     == {rv(hand[i]) : i \in DOMAIN hand}
        count    == [r \in rset |-> Cardinality({i \in DOMAIN hand : rv(hand[i]) = r})]
        cnt      == SortedDesc(Len(hand), rset, count)
        flush    == Cardinality({suit(hand[i]) : i \in DOMAIN hand}) = 1
        straight == Cardinality(rset) = 5 /\ Max(rset) - Min(rset) = 4
    IN  IF flush /\ straight /\ Max(rset) = 12 THEN Scored(9)
        ELSE IF flush /\ straight THEN Scored(8)
        ELSE IF Len(cnt) < 1 THEN Raised
        ELSE IF cnt[1] = 4 THEN Scored(7)
        ELSE IF cnt[1] = 3 /\ Len(cnt) < 2 THEN Raised
        ELSE IF cnt[1] = 3 /\ cnt[2] = 2 THEN Scored(6)
        ELSE IF flush THEN Scored(5)
        ELSE IF straight THEN Scored(4)
        ELSE IF cnt[1] = 3 THEN Scored(3)
        ELSE IF cnt[1] = 2 /\ Len(cnt) < 2 THEN Raised
        ELSE IF cnt[1] = 2 /\ cnt[2] = 2 THEN Scored(2)
        ELSE IF cnt[1] = 2 THEN Scored(1)
        ELSE Scored(0)

\* combinations(cards, 5) as sets of positions
Combinations5(n) == {S \in SUBSET (1..n) : Cardinality(S) = 5}

\* an evaluator that looks at the first five cards only
evaluate_first_five(hand) == score_five(SubSeq(hand, 1, 5))

\* evaluate_hand: score_five of the hand, or the best score_five of its
\* five-card combinations
evaluate_hand(hand) ==
    IF Len(hand) <= 5 THEN score_five(hand)
    ELSE LET scores == {score_five(SubSeqAt(hand, S))[1] : S \in Combinations5(Len(hand))}
         IN Scored(Max(scores))

\* evaluate_hand has not returned
NoResult == <<>>

\* the cards the evaluator is run on: 9h 10h Jh Qh Kh Ah, As Ad Ac, Ks Kd, 2c
EvalPool == << Card(7, 1), Card(8, 1), Card(9, 1), Card(10, 1), Card(11, 1), Card(12, 1),
               Card(12, 0), Card(12, 2), Card(12, 3), Card(11, 0), Card(11, 2), Card(0, 3) >>

\* the hands of five, six and seven distinct cards of the pool
EvalHands ==
    {SubSeqAt(EvalPool, S) : S \in {T \in SUBSET DOMAIN EvalPool : Cardinality(T) \in 5..7}}

\* ------------------------------------------------------------------ state
VARIABLES
    players,           \* PokerGame.players: pid -> [chips, hand, folded, bet, active]
    player_order,      \* PokerGame.player_order
    deck,              \* PokerGame.deck
    pot,               \* PokerGame.pot
    current_bet,       \* PokerGame.current_bet
    community,         \* PokerGame.community
    max_players,       \* PokerGame.max_players
    starting_chips,    \* PokerGame.starting_chips
    num_rounds,        \* PokerGame.num_rounds
    lobby_open,        \* PokerGame.lobby_open
    lobby_ready,       \* PokerGame.lobby_ready (Event: TRUE when set)
    acc_pc,            \* where the accept_loop thread stands
    conns,             \* connections srv.accept has returned
    released,          \* non-host seats whose thread has passed lobby_ready.wait()
    hung_up,           \* seats whose client has closed its connection in the lobby
    last_value,        \* the value of the lobby command the last step read
    play_again_event,  \* PokerGame.play_again_event (Event: TRUE when set)
    play_again_vote,   \* PokerGame.play_again_vote: "None", "True" or "False"
    pc,                \* where the host's thread (the driver) stands
    rnd,               \* run_game_session: rnd
    total,             \* run_game_session: total
    stage,             \* betting_round: stage
    needs_to_act,      \* betting_round: needs_to_act
    turn,              \* betting_round: pid, the seat on action
    host_sock,         \* records the host's client has sent that no receive_line has read
    out,               \* the messages the last step sent
    last_action,       \* the action of the record the last step read ("" if it read none)
    last_claim,        \* the claimed_score the last step passed to cheat_check (-1 if none)
    last_amount,       \* the amount of the BET/RAISE the last step read (0 if none)
    raises,            \* successful BET/RAISE in this round
    last_raiser,       \* the seat of the last successful BET/RAISE in this street
    acted_since,       \* seats with a terminal action since the last BET/RAISE (or street start)
    round_start_total, \* chips of all seats + pot when start_round was entered
    winners,           \* seats credited by the last resolve_winner
    paid_pot,          \* the pot the last resolve_winner paid out
    scen,              \* position in end-to-end scenario A (0: not on it)
    eval_hand,         \* evaluate_hand: the argument hand (<<>> outside the evaluator's runs)
    eval_result,       \* evaluate_hand: the (score, label) it returned
    cl_pc,             \* client.py main: where the main thread of the host's client stands
    ls_pc,             \* client.py listener: where the listener thread of that client stands
    host_event,        \* client.py host_event (Event: TRUE when set)
    is_host,           \* client.py is_host[0]
    game_started,      \* client.py main: game_started[0]
    inbox              \* types of the messages sent to the host's client that it has not handled

tableVars  == << players, player_order, deck, pot, current_bet, community >>
lobbyVars  == << max_players, starting_chips, num_rounds, lobby_open, lobby_ready,
                 acc_pc, conns, released, hung_up, last_value >>
voteVars   == << play_again_event, play_again_vote >>
evalVars   == << eval_hand, eval_result >>
clientVars == << cl_pc, ls_pc, host_event, is_host, game_started, inbox >>
driverVars == << pc, rnd, total, stage, needs_to_act, turn >>
ghostVars  == << raises, last_raiser, acted_since, round_start_total, winners, paid_pot, scen >>
vars == << players, player_order, deck, pot, current_bet, community,
           max_players, starting_chips, num_rounds, lobby_open, lobby_ready,
           acc_pc, conns, released, hung_up, last_value,
           play_again_event, play_again_vote, pc, rnd, total, stage, needs_to_act, turn,
           host_sock, out, last_action, last_claim, last_amount, raises, last_raiser, acted_since,
           round_start_total, winners, paid_pot, scen, eval_hand, eval_result,
           cl_pc, ls_pc, host_event, is_host, game_started, inbox >>

Stages == << "Pre-Flop", "Flop", "Turn", "River" >>

\* the host's client as main() finds it when it starts its listener: in its
\* main loop, nothing received, no event set
NoClient ==
    /\ cl_pc = "top"
    /\ ls_pc = "recv"
    /\ host_event = FALSE
    /\ is_host = FALSE
    /\ game_started = FALSE
    /\ inbox = <<>>

\* a step of the driver that reads no record
NoRead == last_action' = "" /\ last_claim' = 0 - 1 /\ last_amount' = 0

\* messages: send_to(pid, type), broadcast(type), broadcast(type, exclude=pid)
Send(pid, type)      == << "send", type, pid >>
Broadcast(type)      == << "broadcast", type, NoSeat >>
BroadcastExcl(type, pid) == << "broadcast_exclude", type, pid >>

\* PokerGame.add_player: the record of a new seat
add_player(chips) ==
    [chips |-> chips, hand |-> <<>>, folded |-> FALSE, bet |-> 0, active |-> TRUE]

\* PokerGame.active_in_hand, over a players mapping
ActiveInHand(pl) ==
    SelectSeq(player_order, LAMBDA pid : ~pl[pid].folded /\ pl[pid].active)

active_in_hand == ActiveInHand(players)

ActiveSeats(pl) == {pid \in DOMAIN pl : pl[pid].active}

Chips(pl) == [pid \in DOMAIN pl |-> pl[pid].chips]

\* sum of all seats' chips plus the pot
Total(pl, p) == SumOver(DOMAIN pl, Chips(pl)) + p

\* The state in which run_lobby has accepted START: n seats joined while the
\* lobby was open (each with the default stack of the constructor), the host
\* chose the stack and the number of rounds, nothing has been dealt.  The
\* default stack is explored for a game of one round, the small stack for
\* games of two seats and up to MaxRounds rounds.
Init ==
    \E n \in 2..MaxSeats, c \in ChipChoices, r \in 1..MaxRounds :
        /\ c = DefaultChips => r = 1
        /\ n > 2 => c = DefaultChips
        /\ players = [pid \in 0..(n - 1) |-> add_player(DefaultChips)]
        /\ player_order = [i \in 1..n |-> i - 1]
        /\ deck = <<>>
        /\ pot = 0
        /\ current_bet = 0
        /\ community = <<>>
        /\ max_players = DefaultPlayers
        /\ starting_chips = c
        /\ num_rounds = r
        /\ lobby_open = FALSE
        /\ lobby_ready = TRUE
        /\ acc_pc = "stopped"
        /\ conns = n
        /\ released = 1..(n - 1)
        /\ hung_up = {}
        /\ last_value = NoValue
        /\ play_again_event = FALSE
        /\ play_again_vote = "None"
        /\ pc = "session"
        /\ rnd = 0
        /\ total = 0
        /\ stage = ""
        /\ needs_to_act = <<>>
        /\ turn = NoSeat
        /\ host_sock = <<>>
        /\ out = <<>>
        /\ last_action = ""
        /\ last_claim = 0 - 1
        /\ last_amount = 0
        /\ raises = 0
        /\ last_raiser = NoSeat
        /\ acted_since = {}
        /\ round_start_total = 0
        /\ winners = {}
        /\ paid_pot = 0
        /\ scen = 0
        /\ eval_hand = <<>>
        /\ eval_result = NoResult
        /\ NoClient

\* ------------------------------------------------------------------ lobby
\* what the lobby and the accept loop leave alone
gameVars == << deck, pot, current_bet, community, play_again_event, play_again_vote,
               rnd, total, stage, needs_to_act, turn, host_sock, last_claim, last_amount,
               raises, last_raiser, acted_since, round_start_total, winners, paid_pot,
               scen, evalVars, clientVars >>

\* The state after PokerGame.__init__, with accept_loop started and no
\* connection made.
LobbyInit ==
    /\ players = <<>>
    /\ player_order = <<>>
    /\ deck = <<>>
    /\ pot = 0
    /\ current_bet = 0
    /\ community = <<>>
    /\ max_players = DefaultPlayers
    /\ starting_chips = DefaultChips
    /\ num_rounds = DefaultRounds
    /\ lobby_open = TRUE
    /\ lobby_ready = FALSE
    /\ acc_pc = "accept"
    /\ conns = 0
    /\ released = {}
    /\ hung_up = {}
    /\ last_value = NoValue
    /\ play_again_event = FALSE
    /\ play_again_vote = "None"
    /\ pc = "no_host"
    /\ rnd = 0
    /\ total = 0
    /\ stage = ""
    /\ needs_to_act = <<>>
    /\ turn = NoSeat
    /\ host_sock = <<>>
    /\ out = <<>>
    /\ last_action = ""
    /\ last_claim = 0 - 1
    /\ last_amount = 0
    /\ raises = 0
    /\ last_raiser = NoSeat
    /\ acted_since = {}
    /\ round_start_total = 0
    /\ winners = {}
    /\ paid_pot = 0
    /\ scen = 0
    /\ eval_hand = <<>>
    /\ eval_result = NoResult
    /\ NoClient

\* the seats whose client has not closed its connection
Connected == SeqToSet(player_order) \ hung_up

\* accept_loop: srv.accept timed out after the lobby was closed
AcceptTimeout ==
    /\ acc_pc = "accept"
    /\ ~lobby_open /\ lobby_ready
    /\ acc_pc' = "stopped"
    /\ out' = <<>>
    /\ last_action' = ""
    /\ last_value' = NoValue
    /\ UNCHANGED << players, player_order, max_players, starting_chips, num_rounds,
                    lobby_open, lobby_ready, conns, released, hung_up, pc, gameVars >>

\* accept_loop: srv.accept returned a connection; it is turned away if the
\* lobby is closed, otherwise the name handshake begins
AcceptConnection ==
    /\ acc_pc = "accept"
    /\ conns < MaxConns
    /\ conns' = conns + 1
    /\ IF ~lobby_open
       THEN acc_pc' = "accept" /\ out' = << Send(NoSeat, "ERROR") >>
       ELSE acc_pc' = "naming" /\ out' = << Send(NoSeat, "NAME_REQUEST") >>
    /\ last_action' = ""
    /\ last_value' = NoValue
    /\ UNCHANGED << players, player_order, max_players, starting_chips, num_rounds,
                    lobby_open, lobby_ready, released, hung_up, pc, gameVars >>

\* players after PokerGame.add_player gave the next seat to a connection
Seated(pl, pid, chips) ==
    [q \in (DOMAIN pl) \cup {pid} |-> IF q = pid THEN add_player(chips) ELSE pl[q]]

\* accept_loop: get_player_name returned; the connection is turned away if
\* the lobby is full, otherwise it gets the next seat and its thread starts
\* (the thread of seat 0 enters run_lobby)
NameHandshake ==
    /\ acc_pc = "naming"
    /\ acc_pc' = "accept"
    /\ IF Len(player_order) >= max_players
       THEN /\ out' = << Send(NoSeat, "ERROR") >>
            /\ UNCHANGED << players, player_order, pc >>
       ELSE /\ players' = Seated(players, Len(player_order), starting_chips)
            /\ player_order' = Append(player_order, Len(player_order))
            /\ out' = << Broadcast("INFO"), Broadcast("LOBBY_STATUS") >>
            /\ pc' = IF Len(player_order) = 0 THEN "lobby" ELSE pc
    /\ last_action' = ""
    /\ last_value' = NoValue
    /\ UNCHANGED << max_players, starting_chips, num_rounds, lobby_open, lobby_ready,
                    conns, released, hung_up, gameVars >>

\* the client of a non-host seat closes its connection; no thread reads that
\* socket while the lobby is open, and broadcast swallows the failed send
ClientHangsUp ==
    /\ pc = "lobby"
    /\ \E pid \in Connected \ {0} : hung_up' = hung_up \cup {pid}
    /\ out' = <<>>
    /\ last_action' = ""
    /\ last_value' = NoValue
    /\ UNCHANGED << players, player_order, max_players, starting_chips, num_rounds,
                    lobby_open, lobby_ready, acc_pc, conns, released, pc, gameVars >>

\* the test run_lobby makes on the integer of a PLAYERS, CHIPS or ROUNDS command
InLimits(cmd, n) ==
    CASE cmd = "PLAYERS" -> 2 <= n /\ n <= 6
      [] cmd = "CHIPS"   -> n >= 50
      [] cmd = "ROUNDS"  -> 1 <= n /\ n <= 20
      [] OTHER           -> FALSE

\* what run_lobby does with a PLAYERS, CHIPS or ROUNDS command: "set" the
\* field, or answer with the "usage" or the "range" error
SetOutcome(cmd, val) ==
    IF ~py_int(val).ok THEN "usage"
    ELSE IF InLimits(cmd, py_int(val).n) THEN "set"
    ELSE "range"

\* the commands of the host: the four of run_lobby and one it does not know
LobbyCmds == {"PLAYERS", "CHIPS", "ROUNDS", "START", "DANCE"}

\* run_lobby: one pass of the loop on the command cmd with the value val
LobbyPass(cmd, val) ==
    /\ last_action' = cmd
    /\ last_value' = val
    /\ max_players' = IF cmd = "PLAYERS" /\ SetOutcome(cmd, val) = "set"
                      THEN py_int(val).n ELSE max_players
    /\ starting_chips' = IF cmd = "CHIPS" /\ SetOutcome(cmd, val) = "set"
                         THEN py_int(val).n ELSE starting_chips
    /\ num_rounds' = IF cmd = "ROUNDS" /\ SetOutcome(cmd, val) = "set"
                     THEN py_int(val).n ELSE num_rounds
    /\ IF cmd = "START" /\ Len(player_order) >= 2
       THEN /\ lobby_open' = FALSE
            /\ lobby_ready' = TRUE
            /\ pc' = "session"
            /\ out' = << Broadcast("INFO") >>
       ELSE /\ UNCHANGED << lobby_open, lobby_ready, pc >>
            /\ out' = IF SetOutcome(cmd, val) = "set"
                      THEN << Send(0, "INFO"), Broadcast("LOBBY_STATUS") >>
                      ELSE << Send(0, "ERROR") >>
    /\ UNCHANGED << players, player_order, acc_pc, conns, released, hung_up >>

\* run_lobby: one pass of the loop that read a command of the host
LobbyCommand ==
    /\ pc = "lobby"
    /\ \E cmd \in LobbyCmds, val \in LobbyValues :
        /\ cmd \in {"START", "DANCE"} => val = JsonValue("text", 0)
        /\ LobbyPass(cmd, val)
    /\ UNCHANGED gameVars

\* run_lobby: receive_line returned None, the host's connection is gone;
\* sys.exit raises SystemExit in the host's thread
HostDisconnects ==
    /\ pc = "lobby"
    /\ pc' = "exited"
    /\ out' = << Broadcast("ERROR") >>
    /\ last_action' = "<EOF>"
    /\ last_value' = NoValue
    /\ UNCHANGED << players, player_order, max_players, starting_chips, num_rounds,
                    lobby_open, lobby_ready, acc_pc, conns, released, hung_up, gameVars >>

\* handle_client of a non-host seat: lobby_ready.wait() returns
Release ==
    /\ lobby_ready
    /\ \E pid \in SeqToSet(player_order) \ ({0} \cup released) :
            released' = released \cup {pid}
    /\ out' = <<>>
    /\ last_action' = ""
    /\ last_value' = NoValue
    /\ UNCHANGED << players, player_order, max_players, starting_chips, num_rounds,
                    lobby_open, lobby_ready, acc_pc, conns, hung_up, pc, gameVars >>

\* ------------------------------------------------------------ host's client
\* The client of seat 0 while the lobby is open.  No HOST_DECISION, KICKED or
\* SERVER_CLOSING is sent there and the connection stays up, so done[0] stays
\* False, pending_host[0] stays None and the listener stays alive.

\* run_lobby: one pass of the loop on the record the host's client sent; the
\* messages it sends reach that client
ServeLobby ==
    /\ pc = "lobby"
    /\ host_sock # <<>>
    /\ LobbyPass(Head(host_sock).cmd, Head(host_sock).value)
    /\ host_sock' = Tail(host_sock)
    /\ inbox' = inbox \o [i \in DOMAIN out' |-> out'[i][2]]
    /\ UNCHANGED << deck, pot, current_bet, community, voteVars, rnd, total, stage,
                    needs_to_act, turn, last_claim, last_amount, ghostVars, evalVars,
                    cl_pc, ls_pc, host_event, is_host, game_started >>

\* what the client and the lobby leave alone
serverVars == << tableVars, lobbyVars, voteVars, driverVars, out, last_action, last_claim,
                 last_amount, ghostVars, evalVars >>

\* listener: a line was received and handle_message begins; HOST_LOBBY sets
\* is_host[0], every other message of the lobby is only printed
ListenerReads ==
    /\ ls_pc = "recv"
    /\ inbox # <<>>
    /\ inbox' = Tail(inbox)
    /\ IF Head(inbox) = "HOST_LOBBY"
       THEN is_host' = TRUE /\ ls_pc' = "set"
       ELSE UNCHANGED << is_host, ls_pc >>
    /\ UNCHANGED << serverVars, host_sock, cl_pc, host_event, game_started >>

\* handle_message on HOST_LOBBY, after the print: host_event.set()
ListenerSets ==
    /\ ls_pc = "set"
    /\ host_event' = TRUE
    /\ ls_pc' = "recv"
    /\ UNCHANGED << serverVars, host_sock, cl_pc, is_host, game_started, inbox >>

\* main: the test of the while loop and of the lobby phase; a client that is
\* not in the lobby phase goes on to the poll of turn_event
MainTop ==
    /\ cl_pc = "top"
    /\ cl_pc' = IF is_host /\ ~game_started THEN "wait" ELSE "poll"
    /\ UNCHANGED << serverVars, host_sock, ls_pc, host_event, is_host, game_started, inbox >>

\* main: turn_event.wait(timeout=0.5) times out and the loop continues
PollTimeout ==
    /\ cl_pc = "poll"
    /\ cl_pc' = "top"
    /\ UNCHANGED << serverVars, host_sock, ls_pc, host_event, is_host, game_started, inbox >>

\* main: host_event.wait() returns, which it does only when the event is set
WaitReturns ==
    /\ cl_pc = "wait"
    /\ host_event
    /\ cl_pc' = "clear"
    /\ UNCHANGED << serverVars, host_sock, ls_pc, host_event, is_host, game_started, inbox >>

\* main: host_event.clear(), then get_lobby_command shows the lobby prompt
ClearEvent ==
    /\ cl_pc = "clear"
    /\ host_event' = FALSE
    /\ cl_pc' = "prompt"
    /\ UNCHANGED << serverVars, host_sock, ls_pc, is_host, game_started, inbox >>

\* the values get_lobby_command sends: always text, here "0", "2", "51" and
\* text that spells no number
TypedValues == {JsonValue("str", n) : n \in {0, 2, 51}} \cup {JsonValue("text", 0)}

\* main: the host typed a command at the lobby prompt; it is sent, START
\* sets game_started[0] whatever the server will say, and the loop continues
HostTypes ==
    /\ cl_pc = "prompt"
    /\ \E cmd \in LobbyCmds, val \in TypedValues :
        /\ cmd \in {"START", "DANCE"} => val = JsonValue("text", 0)
        /\ host_sock' = Append(host_sock, [cmd |-> cmd, value |-> val])
        /\ game_started' = (game_started \/ cmd = "START")
    /\ cl_pc' = "top"
    /\ UNCHANGED << serverVars, ls_pc, host_event, is_host, inbox >>

\* ------------------------------------------------------------ game session
\* a reset that leaves every stack as the last game left it
ResetKeepsChips(pl) ==
    [pid \in DOMAIN pl |->
        [pl[pid] EXCEPT !.hand = <<>>, !.folded = FALSE, !.bet = 0]]

\* a deactivation that a new game undoes
ResetReactivates(pl) ==
    [pid \in DOMAIN pl |->
        [pl[pid] EXCEPT !.chips = starting_chips, !.hand = <<>>, !.folded = FALSE,
                        !.bet = 0, !.active = TRUE]]

\* PokerGame.reset_for_new_game
reset_for_new_game(pl) ==
    [pid \in DOMAIN pl |->
        [pl[pid] EXCEPT !.chips = starting_chips, !.hand = <<>>, !.folded = FALSE, !.bet = 0]]

\* run_game_session, top of the while loop up to the for loop
NewGame ==
    /\ pc = "session"
    /\ players' = reset_for_new_game(players)
    /\ total' = num_rounds
    /\ rnd' = 1
    /\ pc' = "round_loop"
    /\ out' = << Broadcast("INFO") >>
    /\ NoRead
    /\ UNCHANGED << player_order, deck, pot, current_bet, community, lobbyVars, clientVars, evalVars, voteVars,
                    stage, needs_to_act, turn, host_sock, ghostVars >>

\* a for loop that never ends early
AlwaysEnoughPlayers(pl) == FALSE

\* the test that ends the for loop early
NotEnoughPlayers(pl) ==
    /\ Len(ActiveInHand(pl)) < 2
    /\ Cardinality(ActiveSeats(pl)) < 2

\* the hole cards: every active seat pops two cards, in seat-join order
RECURSIVE Deal(_, _, _)
Deal(pl, dk, order) ==
    IF order = <<>> THEN [players |-> pl, deck |-> dk]
    ELSE LET pid == Head(order) IN
         IF pl[pid].active
         THEN Deal([pl EXCEPT ![pid].hand = << dk[Len(dk)], dk[Len(dk) - 1] >>,
                              ![pid].folded = FALSE,
                              ![pid].bet = 0],
                   SubSeq(dk, 1, Len(dk) - 2), Tail(order))
         ELSE Deal(pl, dk, Tail(order))

\* a blind that is wagered but never taken from the stack
PostBlindNoDebit(p) ==
    IF p.active /\ p.chips >= blind
    THEN [p EXCEPT !.bet = @ + blind]
    ELSE p

\* the blind of one seat
PostBlind(p) ==
    IF p.active /\ p.chips >= blind
    THEN [p EXCEPT !.chips = @ - blind, !.bet = @ + blind]
    ELSE p

\* a blind that reaches the pot whether or not the seat could post it
BlindPaidAlways(p) == blind

BlindPaid(p) == IF p.active /\ p.chips >= blind THEN blind ELSE 0

\* the for loop of run_game_session runs out
FinishRounds ==
    /\ pc = "round_loop"
    /\ rnd > total
    /\ pc' = "game_over"
    /\ out' = <<>>
    /\ NoRead
    /\ UNCHANGED << tableVars, lobbyVars, clientVars, evalVars, voteVars, rnd, total, stage, needs_to_act, turn,
                    host_sock, ghostVars >>

\* the for loop of run_game_session breaks: not enough players
EndEarly ==
    /\ pc = "round_loop"
    /\ rnd <= total
    /\ NotEnoughPlayers(players)
    /\ pc' = "game_over"
    /\ out' = << Broadcast("INFO") >>
    /\ NoRead
    /\ UNCHANGED << tableVars, lobbyVars, clientVars, evalVars, voteVars, rnd, total, stage, needs_to_act, turn,
                    host_sock, ghostVars >>

\* one iteration of the for loop up to the first betting_round: the folded
\* flags are reset and start_round shuffles, deals and posts the blinds
StartRound ==
    /\ pc = "round_loop"
    /\ rnd <= total
    /\ ~NotEnoughPlayers(players)
    /\ \E k \in Shuffles(Len(player_order)) :
        LET unfolded == [pid \in DOMAIN players |->
                            IF players[pid].active
                            THEN [players[pid] EXCEPT !.folded = FALSE]
                            ELSE players[pid]]
            dealt    == Deal(unfolded, create_deck(k), player_order)
            paid     == [pid \in DOMAIN players |-> BlindPaid(dealt.players[pid])]
        IN  /\ players' = [pid \in DOMAIN players |-> PostBlind(dealt.players[pid])]
            /\ deck' = dealt.deck
            /\ pot' = 0 + SumOver(DOMAIN players, paid)
    /\ current_bet' = blind
    /\ community' = <<>>
    /\ stage' = "Pre-Flop"
    /\ pc' = "street_begin"
    /\ out' = << Broadcast("INFO"), Send(NoSeat, "HAND"), Broadcast("INFO") >>
    /\ round_start_total' = Total(players, pot)
    /\ winners' = {}
    /\ paid_pot' = 0
    /\ scen' = IF rnd = 1 /\ Len(player_order) = 2 /\ starting_chips = 1000 THEN 1 ELSE 0
    /\ raises' = 0
    /\ NoRead
    /\ UNCHANGED << player_order, lobbyVars, clientVars, evalVars, voteVars, rnd, total, needs_to_act, turn,
                    host_sock, last_raiser, acted_since >>

\* a street that begins with the wagers and the current bet left as they are
BeginStreetKeepsWagers ==
    /\ pc = "street_begin"
    /\ current_bet' = current_bet
    /\ players' = players
    /\ LET active == ActiveInHand(players') IN
        IF Len(active) <= 1
        THEN /\ needs_to_act' = <<>>
             /\ pc' = "street_done"
        ELSE /\ needs_to_act' = active
             /\ pc' = "pop"
    /\ turn' = NoSeat
    /\ last_raiser' = NoSeat
    /\ acted_since' = {}
    /\ out' = << Broadcast("INFO") >>
    /\ NoRead
    /\ UNCHANGED << player_order, deck, pot, community, lobbyVars, clientVars, evalVars, voteVars, rnd, total,
                    stage, host_sock, raises, round_start_total, winners, paid_pot, scen >>

\* ------------------------------------------------------------ betting round
\* betting_round up to the while loop: wagers reset, the queue is seeded
BeginStreet ==
    /\ pc = "street_begin"
    /\ current_bet' = 0
    /\ players' = [pid \in DOMAIN players |-> [players[pid] EXCEPT !.bet = 0]]
    /\ LET active == ActiveInHand(players') IN
        IF Len(active) <= 1
        THEN /\ needs_to_act' = <<>>
             /\ pc' = "street_done"
        ELSE /\ needs_to_act' = active
             /\ pc' = "pop"
    /\ turn' = NoSeat
    /\ last_raiser' = NoSeat
    /\ acted_since' = {}
    /\ out' = << Broadcast("INFO") >>
    /\ NoRead
    /\ UNCHANGED << player_order, deck, pot, community, lobbyVars, clientVars, evalVars, voteVars, rnd, total,
                    stage, host_sock, raises, round_start_total, winners, paid_pot, scen >>

\* the head of the while loop: the queue is empty, or its head is popped and
\* either skipped or told that it is on action
NextSeat ==
    /\ pc = "pop"
    /\ IF needs_to_act = <<>>
       THEN /\ pc' = "street_done"
            /\ UNCHANGED << needs_to_act, turn >>
            /\ out' = <<>>
       ELSE LET pid == Head(needs_to_act) IN
            /\ needs_to_act' = Tail(needs_to_act)
            /\ turn' = pid
            /\ IF players[pid].folded \/ ~players[pid].active
               THEN /\ pc' = "pop"
                    /\ out' = <<>>
               ELSE /\ pc' = "prompt"
                    /\ out' = << Broadcast("TURN"), Send(pid, "YOUR_TURN") >>
    /\ NoRead
    /\ UNCHANGED << tableVars, lobbyVars, clientVars, evalVars, voteVars, rnd, total, stage, host_sock, ghostVars >>

\* a call amount that ignores the current bet
call_amount_zero(p, cb) == 0

\* max(0, game.current_bet - p["bet"])
call_amount(p, cb) == IF cb - p.bet > 0 THEN cb - p.bet ELSE 0

\* a raise that queues nobody again
ReopenNone(queue, pid, pl, order) == queue

\* a raise that queues every other seat in the hand, queued already or not
ReopenAll(queue, pid, pl, order) ==
    queue \o SelectSeq(order, LAMBDA o : o # pid /\ ~pl[o].folded /\ pl[o].active)

\* the "Raise" branch of betting_round: every other seat that is still in and
\* is not queued is appended, in the order of player_order
RECURSIVE Reopen(_, _, _, _)
Reopen(queue, pid, pl, order) ==
    IF order = <<>> THEN queue
    ELSE LET other == Head(order) IN
         IF other # pid /\ ~pl[other].folded /\ pl[other].active
                /\ other \notin SeqToSet(queue)
         THEN Reopen(Append(queue, other), pid, pl, Tail(order))
         ELSE Reopen(queue, pid, pl, Tail(order))

\* position in scenario A after a terminal action of the seat on action
ScenAfter(pid, action, amount) ==
    IF      scen = 1 /\ stage = "Pre-Flop" /\ pid = 0 /\ action = "BET" /\ amount = 50 THEN 2
    ELSE IF scen = 2 /\ stage = "Pre-Flop" /\ pid = 1 /\ action = "CALL" THEN 3
    ELSE IF scen = 3 /\ stage = "Flop" /\ pid = 0 /\ action = "CHECK" THEN 4
    ELSE IF scen = 4 /\ stage = "Flop" /\ pid = 1 /\ action = "CHECK" THEN 5
    ELSE IF scen = 5 /\ stage = "Turn" /\ pid = 0 /\ action = "BET" /\ amount = 100 THEN 6
    ELSE IF scen = 6 /\ stage = "Turn" /\ pid = 1 /\ action = "FOLD" THEN 7
    ELSE 0

\* a terminal action after which the street goes on with one seat left
TerminalPlaysOn(pl, raised, msgs, action, amount, ok) ==
    /\ players' = pl
    /\ LET queue == IF raised THEN Reopen(needs_to_act, turn, pl, player_order)
                    ELSE needs_to_act
       IN IF Len(ActiveInHand(pl)) < 1
          THEN /\ pc' = "street_done"
               /\ needs_to_act' = <<>>
          ELSE /\ pc' = "pop"
               /\ needs_to_act' = queue
    /\ out' = msgs
    /\ last_action' = action
    /\ last_amount' = amount
    /\ raises' = IF raised THEN raises + 1 ELSE raises
    /\ last_raiser' = IF raised THEN turn ELSE last_raiser
    /\ acted_since' = IF raised THEN {} ELSE acted_since \cup {turn}
    /\ scen' = IF ok THEN ScenAfter(turn, action, amount) ELSE 0
    /\ UNCHANGED << player_order, deck, community, lobbyVars, clientVars, evalVars, voteVars, rnd, total, stage,
                    turn, host_sock, round_start_total, winners, paid_pot >>

\* The seat on action produced a terminal result (neither "re-prompt" nor an
\* intercepted host decision): the inner loop breaks, after a raise the
\* others are queued again, and the street ends when at most one seat is in.
\* ok tells that the action was carried out (no kick, no disconnect).
Terminal(pl, raised, msgs, action, amount, ok) ==
    /\ players' = pl
    /\ LET queue == IF raised THEN Reopen(needs_to_act, turn, pl, player_order)
                    ELSE needs_to_act
       IN IF Len(ActiveInHand(pl)) <= 1
          THEN /\ pc' = "street_done"
               /\ needs_to_act' = <<>>
          ELSE /\ pc' = "pop"
               /\ needs_to_act' = queue
    /\ out' = msgs
    /\ last_action' = action
    /\ last_amount' = amount
    /\ raises' = IF raised THEN raises + 1 ELSE raises
    /\ last_raiser' = IF raised THEN turn ELSE last_raiser
    /\ acted_since' = IF raised THEN {} ELSE acted_since \cup {turn}
    /\ scen' = IF ok THEN ScenAfter(turn, action, amount) ELSE 0
    /\ UNCHANGED << player_order, deck, community, lobbyVars, clientVars, evalVars, voteVars, rnd, total, stage,
                    turn, host_sock, round_start_total, winners, paid_pot >>

\* handle_action returned "re-prompt": the seat is sent YOUR_TURN again
RePromptWith(msgs, action, amount) ==
    /\ out' = msgs \o << Send(turn, "YOUR_TURN") >>
    /\ last_action' = action
    /\ last_claim' = 0 - 1
    /\ last_amount' = amount
    /\ UNCHANGED << tableVars, lobbyVars, clientVars, evalVars, voteVars, driverVars, host_sock, ghostVars >>

RePrompt(msgs, action) == RePromptWith(msgs, action, 0)

\* a disconnect that folds the seat but leaves it active
DroppedStaysActive(pl, pid) == [pl EXCEPT ![pid].folded = TRUE]

\* players after the seat on action was found disconnected
Dropped(pl, pid) == [pl EXCEPT ![pid].active = FALSE, ![pid].folded = TRUE]

\* receive_line returned None: the seat on action disconnected
Disconnect ==
    /\ pc = "prompt"
    /\ UNCHANGED << pot, current_bet >>
    /\ last_claim' = 0 - 1
    /\ Terminal(Dropped(players, turn), FALSE, << Broadcast("INFO") >>, "<EOF>", 0, FALSE)

Fold ==
    /\ pc = "prompt"
    /\ UNCHANGED << pot, current_bet >>
    /\ last_claim' = 0 - 1
    /\ Terminal([players EXCEPT ![turn].folded = TRUE],
                FALSE, << Broadcast("INFO") >>, "FOLD", 0, TRUE)

Check ==
    /\ pc = "prompt"
    /\ IF call_amount(players[turn], current_bet) > 0
       THEN RePrompt(<< Send(turn, "ERROR") >>, "CHECK")
       ELSE /\ UNCHANGED << pot, current_bet >>
            /\ last_claim' = 0 - 1
            /\ Terminal(players, FALSE, << Broadcast("INFO") >>, "CHECK", 0, TRUE)

\* a CALL that is not capped at the stack
CallPaysUncapped(p, cb) == call_amount(p, cb)

\* a CALL that leaves one chip of the call amount unpaid
CallPaysShort(p, cb) ==
    IF call_amount(p, cb) < p.chips THEN call_amount(p, cb) - 1 ELSE p.chips

\* the chips a CALL moves: the call amount capped at the stack
CallPays(p, cb) ==
    IF call_amount(p, cb) < p.chips THEN call_amount(p, cb) ELSE p.chips

Call ==
    /\ pc = "prompt"
    /\ LET p    == players[turn]
           paid == IF call_amount(p, current_bet) = 0 THEN 0 ELSE CallPays(p, current_bet)
       IN /\ pot' = pot + paid
          /\ UNCHANGED current_bet
          /\ last_claim' = 0 - 1
          /\ Terminal([players EXCEPT ![turn].chips = @ - paid, ![turn].bet = @ + paid],
                      FALSE, << Broadcast("INFO") >>, "CALL", 0, TRUE)

Quit ==
    /\ pc = "prompt"
    /\ UNCHANGED << pot, current_bet >>
    /\ last_claim' = 0 - 1
    /\ Terminal([players EXCEPT ![turn].active = FALSE, ![turn].folded = TRUE],
                FALSE, << Broadcast("INFO") >>, "QUIT", 0, TRUE)

\* an action that is none of the six verbs
UnknownAction ==
    /\ pc = "prompt"
    /\ RePrompt(<< Send(turn, "ERROR") >>, "DANCE")

\* ------------------------------------------------------------ cheat detector
\* the score cheat_check compares the claim with
real_score(pid) == evaluate_hand(players[pid].hand \o community)[1]

\* cheat_check's verdict on a real score that was computed
cheat_check(real, claimed_score) == claimed_score > real

\* a kick that deactivates the seat but leaves it in the hand
KickedNotFolded(pl, pid) == [pl EXCEPT ![pid].active = FALSE]

\* cheat_check found the claim false: the seat is deactivated and folded
Kicked(pl, pid) == [pl EXCEPT ![pid].active = FALSE, ![pid].folded = TRUE]

\* a raise that forgets the call: only the amount is needed
amount_only(p, cb, amount) == amount

\* chips a BET/RAISE of amount needs
total_needed(p, cb, amount) == call_amount(p, cb) + amount

\* a BET/RAISE that is wagered but never taken from the stack
BetAppliedNoDebit(p, needed) == [p EXCEPT !.bet = @ + needed]

\* the seat after a BET/RAISE that was applied
BetApplied(p, needed) == [p EXCEPT !.chips = @ - needed, !.bet = @ + needed]

\* an outcome that never compares the chips needed with the stack
BetOutcomeNoStackTest(amount, claimed, real) ==
    IF amount <= 0 THEN "re-prompt"
    ELSE IF claimed < 0 THEN "applied"
    ELSE IF real = IndexError THEN "raise"
    ELSE IF cheat_check(real, claimed) THEN "kicked"
    ELSE "applied"

\* what handle_action does with a BET or RAISE of the seat on action:
\* "re-prompt", "raise" (IndexError of the evaluator), "kicked" or "applied"
BetOutcome(amount, claimed, real) ==
    IF amount <= 0 THEN "re-prompt"
    ELSE IF total_needed(players[turn], current_bet, amount) > players[turn].chips
         THEN "re-prompt"
    ELSE IF claimed < 0 THEN "applied"
    ELSE IF real = IndexError THEN "raise"
    ELSE IF cheat_check(real, claimed) THEN "kicked"
    ELSE "applied"

\* handle_action on a BET or RAISE of the seat on action; real is the score
\* cheat_check computes when it is called, cap the number of BET/RAISE of a
\* round that are explored
BetOn(amount, claimed, real, cap) ==
    LET p       == players[turn]
        needed  == total_needed(p, current_bet, amount)
        outcome == BetOutcome(amount, claimed, real)
    IN  CASE outcome = "re-prompt" ->
                RePromptWith(<< Send(turn, "ERROR") >>, "BET", amount)
          [] outcome = "raise" ->
                \* nothing catches the IndexError: the host's thread ends
                /\ pc' = "crashed"
                /\ out' = <<>>
                /\ last_action' = "BET"
                /\ last_claim' = claimed
                /\ last_amount' = amount
                /\ scen' = 0
                /\ UNCHANGED << tableVars, lobbyVars, clientVars, evalVars, voteVars, rnd, total, stage,
                                needs_to_act, turn, host_sock, raises, last_raiser,
                                acted_since, round_start_total, winners, paid_pot >>
          [] outcome = "kicked" ->
                /\ UNCHANGED << pot, current_bet >>
                /\ last_claim' = claimed
                /\ Terminal(Kicked(players, turn),
                            FALSE, << Send(turn, "KICKED"), BroadcastExcl("INFO", turn) >>,
                            "BET", amount, FALSE)
          [] outcome = "applied" ->
                /\ raises < cap
                /\ pot' = pot + needed
                /\ current_bet' = BetApplied(p, needed).bet
                /\ last_claim' = claimed
                /\ Terminal([players EXCEPT ![turn] = BetApplied(p, needed)],
                            TRUE, << Broadcast("INFO") >>, "BET", amount, TRUE)

Bet ==
    /\ pc = "prompt"
    /\ \E real \in {real_score(turn)} :
        \E amount \in BadAmounts \cup BetAmounts, claimed \in ClaimChoices :
            BetOn(amount, claimed, real, MaxRaises)

\* records the driver cannot digest: one that is not a JSON object
\* (data.get raises AttributeError in betting_round), one whose "action" is
\* not text (.upper() raises AttributeError in handle_action), and a BET whose
\* "claimed_score" is text or null (claimed >= 0 raises TypeError)
MalformedKinds == {"<not an object>", "<action not text>", "<claimed_score not a number>"}

\* the seat on action sends such a record: nothing catches the exception and
\* the host's thread, which is the driver, ends
Malformed ==
    /\ pc = "prompt"
    /\ \E kind \in MalformedKinds :
        /\ kind = "<claimed_score not a number>"
                => \E amount \in BetAmounts :
                        total_needed(players[turn], current_bet, amount) <= players[turn].chips
        /\ last_action' = kind
    /\ pc' = "crashed"
    /\ out' = <<>>
    /\ last_claim' = 0 - 1
    /\ last_amount' = 0
    /\ scen' = 0
    /\ UNCHANGED << tableVars, lobbyVars, clientVars, evalVars, voteVars, rnd, total, stage, needs_to_act, turn,
                    host_sock, raises, last_raiser, acted_since, round_start_total,
                    winners, paid_pot >>

\* ------------------------------------------------------------ host decision
\* the cmd of a HOST_DECISION_RESPONSE, after upper().strip()
HostCmds == {"PLAY AGAIN", "END", "LATER"}

\* a "cmd" field that is not text (a number, null, a list)
NotText == "<not text>"

\* the commands _handle_host_decision acts on
Decisions == {"PLAY AGAIN", "END"}

\* _handle_host_decision: the vote a command sets
VoteOf(cmd) == IF cmd = "PLAY AGAIN" THEN "True" ELSE "False"

\* a HOST_DECISION_RESPONSE read from the seat on action is intercepted
\* ("continue": the seat is prompted again)
InterceptHostDecision ==
    /\ pc = "prompt"
    /\ \E cmd \in HostCmds \cup {NotText} :
        IF cmd = NotText
        THEN \* .upper() raises AttributeError, nothing catches it: the driver ends
             /\ pc' = "crashed"
             /\ out' = <<>>
             /\ UNCHANGED << voteVars, rnd, total, stage, needs_to_act, turn >>
        ELSE /\ IF cmd \in Decisions
                THEN /\ play_again_vote' = VoteOf(cmd)
                     /\ play_again_event' = TRUE
                ELSE UNCHANGED voteVars
             /\ out' = << Send(turn, "YOUR_TURN") >>
             /\ UNCHANGED driverVars
    /\ last_action' = "HOST_DECISION_RESPONSE"
    /\ last_claim' = 0 - 1
    /\ last_amount' = 0
    /\ UNCHANGED << tableVars, lobbyVars, clientVars, evalVars, host_sock, ghostVars >>

\* a deal that does not look at how many seats are left in the hand
DealCommunityAlways ==
    /\ pc = "street_done"
    /\ stage # "River"
    /\ LET n == IF stage = "Pre-Flop" THEN 3 ELSE 1 IN
        /\ community' = community \o [i \in 1..n |-> deck[Len(deck) + 1 - i]]
        /\ deck' = SubSeq(deck, 1, Len(deck) - n)
    /\ stage' = IF stage = "Pre-Flop" THEN "Flop" ELSE IF stage = "Flop" THEN "Turn" ELSE "River"
    /\ pc' = "street_begin"
    /\ out' = << Broadcast("COMMUNITY") >>
    /\ NoRead
    /\ UNCHANGED << players, player_order, pot, current_bet, lobbyVars, clientVars, evalVars, voteVars, rnd, total,
                    needs_to_act, turn, host_sock, ghostVars >>

\* ------------------------------------------------------------ round
\* start_round between two streets: the next community cards are popped
DealCommunity ==
    /\ pc = "street_done"
    /\ stage # "River"
    /\ Len(active_in_hand) >= 2
    /\ LET n == IF stage = "Pre-Flop" THEN 3 ELSE 1 IN
        /\ community' = community \o [i \in 1..n |-> deck[Len(deck) + 1 - i]]
        /\ deck' = SubSeq(deck, 1, Len(deck) - n)
    /\ stage' = IF stage = "Pre-Flop" THEN "Flop" ELSE IF stage = "Flop" THEN "Turn" ELSE "River"
    /\ pc' = "street_begin"
    /\ out' = << Broadcast("COMMUNITY") >>
    /\ NoRead
    /\ UNCHANGED << players, player_order, pot, current_bet, lobbyVars, clientVars, evalVars, voteVars, rnd, total,
                    needs_to_act, turn, host_sock, ghostVars >>

\* the score evaluate_hand gives a seat at the showdown
ShowdownScore(pid) == evaluate_hand(players[pid].hand \o community)[1]

\* the list results of resolve_winner before it is sorted: (score, pid) of
\* every contender, in join order
RECURSIVE Results(_)
Results(active) ==
    IF active = <<>> THEN <<>>
    ELSE << << ShowdownScore(Head(active)), Head(active) >> >> \o Results(Tail(active))

\* every contender is paid, whatever its score
WinnersAll(results) == {r[2] : r \in SeqToSet(results)}

\* only the first seat with the top score is paid
WinnersFirst(results) ==
    LET top == Max({r[1] : r \in SeqToSet(results)})
    IN {Min({r[2] : r \in {x \in SeqToSet(results) : x[1] = top}})}

\* the seats of the entries whose score is the top score
Winners(results) ==
    LET top == Max({r[1] : r \in SeqToSet(results)})
    IN {r[2] : r \in {x \in SeqToSet(results) : x[1] = top}}

\* a share that is rounded up
SplitCeil(p, k) == (p + k - 1) \div k

\* the share every winner is credited
Split(p, k) == p \div k

\* the state resolve_winner leaves, then the for loop of run_game_session
\* goes to its next iteration
Resolved(pl, credited, msgs) ==
    /\ players' = pl
    /\ pot' = 0
    /\ winners' = credited
    /\ paid_pot' = pot
    /\ rnd' = rnd + 1
    /\ pc' = "round_loop"
    /\ out' = msgs
    /\ NoRead
    /\ scen' = IF scen = 7 THEN 8 ELSE 0
    /\ UNCHANGED << player_order, deck, current_bet, community, lobbyVars, clientVars, evalVars, voteVars, total,
                    stage, needs_to_act, turn, host_sock, raises, last_raiser, acted_since,
                    round_start_total >>

\* resolve_winner with at most one seat left in the hand
ResolveLast ==
    /\ pc = "street_done"
    /\ Len(active_in_hand) < 2
    /\ IF Len(active_in_hand) = 0
       THEN Resolved(players, {}, << Broadcast("INFO") >>)
       ELSE LET winner_id == active_in_hand[1] IN
            Resolved([players EXCEPT ![winner_id].chips = @ + pot], {winner_id},
                     << Broadcast("WINNER") >>)

\* resolve_winner with two or more seats left: the showdown after the River
Showdown ==
    /\ pc = "street_done"
    /\ stage = "River"
    /\ Len(active_in_hand) >= 2
    /\ \E results \in {Results(active_in_hand)} :
       LET won   == Winners(results)
           share == Split(pot, Cardinality(won))
       IN Resolved([pid \in DOMAIN players |->
                        IF pid \in won
                        THEN [players[pid] EXCEPT !.chips = @ + share]
                        ELSE players[pid]],
                   won, << Send(NoSeat, "SHOWDOWN"), Broadcast("REVEAL"), Broadcast("WINNER") >>)

\* ------------------------------------------------------------ end of a game
\* run_game_session after the for loop: standings, the host is asked, the
\* event is cleared and the thread waits on it
AskHost ==
    /\ pc = "game_over"
    /\ play_again_event' = FALSE
    /\ play_again_vote' = "None"
    /\ pc' = "wait_decision"
    /\ out' = << Broadcast("GAME_OVER"), Send(0, "HOST_DECISION"), BroadcastExcl("INFO", 0) >>
    /\ NoRead
    /\ UNCHANGED << tableVars, lobbyVars, clientVars, evalVars, rnd, total, stage, needs_to_act, turn, host_sock,
                    ghostVars >>

\* the host's client answers HOST_DECISION: the record is written to the
\* host's connection
HostSendsDecision ==
    /\ pc = "wait_decision"
    /\ host_sock = <<>>
    /\ \E cmd \in HostCmds : host_sock' = << cmd >>
    /\ out' = <<>>
    /\ NoRead
    /\ UNCHANGED << tableVars, lobbyVars, clientVars, evalVars, voteVars, driverVars, ghostVars >>

\* play_again_event.wait() returns with the vote "play again": the while
\* loop of run_game_session starts the next game
PlayAgain ==
    /\ pc = "wait_decision"
    /\ play_again_event
    /\ play_again_vote = "True"
    /\ pc' = "session"
    /\ out' = << Broadcast("INFO") >>
    /\ NoRead
    /\ UNCHANGED << tableVars, lobbyVars, clientVars, evalVars, voteVars, rnd, total, stage, needs_to_act, turn,
                    host_sock, ghostVars >>

\* play_again_event.wait() returns with another vote: the session is closed
EndSession ==
    /\ pc = "wait_decision"
    /\ play_again_event
    /\ play_again_vote # "True"
    /\ pc' = "closed"
    /\ out' = << Broadcast("SERVER_CLOSING") >>
    /\ NoRead
    /\ UNCHANGED << tableVars, lobbyVars, clientVars, evalVars, voteVars, rnd, total, stage, needs_to_act, turn,
                    host_sock, ghostVars >>

\* ------------------------------------------------------------ specification
\* PlayAgain and EndSession are not steps of Next: they wait for
\* play_again_event, which AskHost clears and only InterceptHostDecision
\* sets, and InterceptHostDecision is a step of the very thread that waits.
Next ==
    \/ NewGame
    \/ FinishRounds
    \/ EndEarly
    \/ StartRound
    \/ BeginStreet
    \/ NextSeat
    \/ Disconnect
    \/ Fold
    \/ Check
    \/ Call
    \/ Quit
    \/ UnknownAction
    \/ Bet
    \/ Malformed
    \/ InterceptHostDecision
    \/ DealCommunity
    \/ ResolveLast
    \/ Showdown
    \/ AskHost
    \/ HostSendsDecision

Spec == Init /\ [][Next]_vars

\* the driver and the host's client take every step they can take
FairSpec == Spec /\ WF_vars(Next)

\* A later round with a seat gone: the top of the second pass of the for loop
\* of run_game_session in a game of three seats that START opened with stacks
\* of 51 and the default number of rounds.  In the first round seat 0 folded,
\* seat 1 checked and seat 2 disconnected on action, so seat 1 took the pot of
\* the three blinds.
LaterInit ==
    \E dealt \in {Deal([pid \in 0..2 |-> add_player(51)], create_deck(3), << 0, 1, 2 >>)} :
        /\ players = [pid \in 0..2 |->
                        [dealt.players[pid] EXCEPT
                            !.chips = IF pid = 1 THEN 51 - blind + 3 * blind ELSE 51 - blind,
                            !.folded = (pid # 1),
                            !.active = (pid # 2)]]
        /\ player_order = << 0, 1, 2 >>
        /\ deck = dealt.deck
        /\ pot = 0
        /\ current_bet = 0
        /\ community = <<>>
        /\ max_players = DefaultPlayers
        /\ starting_chips = 51
        /\ num_rounds = DefaultRounds
        /\ lobby_open = FALSE
        /\ lobby_ready = TRUE
        /\ acc_pc = "stopped"
        /\ conns = 3
        /\ released = {1, 2}
        /\ hung_up = {}
        /\ last_value = NoValue
        /\ play_again_event = FALSE
        /\ play_again_vote = "None"
        /\ pc = "round_loop"
        /\ rnd = 2
        /\ total = DefaultRounds
        /\ stage = "Pre-Flop"
        /\ needs_to_act = <<>>
        /\ turn = 2
        /\ host_sock = <<>>
        /\ out = << Broadcast("WINNER") >>
        /\ last_action = ""
        /\ last_claim = 0 - 1
        /\ last_amount = 0
        /\ raises = 0
        /\ last_raiser = NoSeat
        /\ acted_since = {0, 1, 2}
        /\ round_start_total = 3 * 51
        /\ winners = {1}
        /\ paid_pot = 3 * blind
        /\ scen = 0
        /\ eval_hand = <<>>
        /\ eval_result = NoResult
        /\ NoClient

\* the session from there on: run_game_session does not come back to its top
LaterNext ==
    \/ FinishRounds
    \/ EndEarly
    \/ StartRound
    \/ BeginStreet
    \/ NextSeat
    \/ Disconnect
    \/ Fold
    \/ Check
    \/ Call
    \/ Quit
    \/ UnknownAction
    \/ Bet
    \/ Malformed
    \/ InterceptHostDecision
    \/ DealCommunity
    \/ ResolveLast
    \/ Showdown
    \/ AskHost
    \/ HostSendsDecision

LaterSpec == LaterInit /\ [][LaterNext]_vars

\* The last round of that game when the stacks are short.  In the first
\* round seat 0 bet 38 after the blinds, seats 1 and 2 called and seat 2 won
\* the showdown; in the second only seat 2 could post the blind, seat 0
\* checked, seat 1 folded and seat 2 disconnected on action, so seat 0 took
\* the pot of one blind.  This is the top of the third pass of the for loop.
ShortInit ==
    \E dealt \in {Deal([pid \in 0..2 |-> add_player(51)], create_deck(3), << 0, 1, 2 >>)} :
        /\ players = [pid \in 0..2 |->
                        [dealt.players[pid] EXCEPT
                            !.chips = CASE pid = 0 -> 51 - blind - 38 + blind
                                        [] pid = 1 -> 51 - blind - 38
                                        [] pid = 2 -> 51 - blind - 38 + 3 * (blind + 38) - blind,
                            !.folded = (pid # 0),
                            !.active = (pid # 2)]]
        /\ player_order = << 0, 1, 2 >>
        /\ deck = dealt.deck
        /\ pot = 0
        /\ current_bet = 0
        /\ community = <<>>
        /\ max_players = DefaultPlayers
        /\ starting_chips = 51
        /\ num_rounds = DefaultRounds
        /\ lobby_open = FALSE
        /\ lobby_ready = TRUE
        /\ acc_pc = "stopped"
        /\ conns = 3
        /\ released = {1, 2}
        /\ hung_up = {}
        /\ last_value = NoValue
        /\ play_again_event = FALSE
        /\ play_again_vote = "None"
        /\ pc = "round_loop"
        /\ rnd = 3
        /\ total = DefaultRounds
        /\ stage = "Pre-Flop"
        /\ needs_to_act = <<>>
        /\ turn = 2
        /\ host_sock = <<>>
        /\ out = << Broadcast("WINNER") >>
        /\ last_action = ""
        /\ last_claim = 0 - 1
        /\ last_amount = 0
        /\ raises = 0
        /\ last_raiser = NoSeat
        /\ acted_since = {0, 1, 2}
        /\ round_start_total = 3 * 51
        /\ winners = {0}
        /\ paid_pot = blind
        /\ scen = 0
        /\ eval_hand = <<>>
        /\ eval_result = NoResult
        /\ NoClient

\* amounts of the BET/RAISE messages of short stacks
ShortAmounts == {1, 2}

\* a BET or RAISE of the seat on action in that round; no bound is put on the
\* number of BET/RAISE but that of the chips at the table
ShortBet ==
    /\ pc = "prompt"
    /\ \E real \in {real_score(turn)} :
        \E amount \in BadAmounts \cup ShortAmounts, claimed \in ClaimChoices :
            BetOn(amount, claimed, real, round_start_total)

ShortNext ==
    \/ FinishRounds
    \/ StartRound
    \/ BeginStreet
    \/ NextSeat
    \/ Disconnect
    \/ Fold
    \/ Check
    \/ Call
    \/ Quit
    \/ UnknownAction
    \/ ShortBet
    \/ Malformed
    \/ InterceptHostDecision
    \/ DealCommunity
    \/ ResolveLast
    \/ Showdown
    \/ AskHost
    \/ HostSendsDecision

\* the host's thread runs: the driver takes the steps of betting_round that
\* wait for no client (nothing is assumed of what the clients send, or when)
ShortFairSpec == ShortInit /\ [][ShortNext]_vars /\ WF_vars(BeginStreet \/ NextSeat)

\* The lobby as the host's client sees it: the thread of seat 0 has entered
\* run_lobby and sent its banner, the lobby status and HOST_LOBBY; the host
\* is alone at the table or a second seat has joined; the client is in its
\* main loop and has handled what was sent before.
ClientInit ==
    \E n \in 1..2 :
        /\ players = [pid \in 0..(n - 1) |-> add_player(DefaultChips)]
        /\ player_order = [i \in 1..n |-> i - 1]
        /\ deck = <<>>
        /\ pot = 0
        /\ current_bet = 0
        /\ community = <<>>
        /\ max_players = DefaultPlayers
        /\ starting_chips = DefaultChips
        /\ num_rounds = DefaultRounds
        /\ lobby_open = TRUE
        /\ lobby_ready = FALSE
        /\ acc_pc = "accept"
        /\ conns = n
        /\ released = {}
        /\ hung_up = {}
        /\ last_value = NoValue
        /\ play_again_event = FALSE
        /\ play_again_vote = "None"
        /\ pc = "lobby"
        /\ rnd = 0
        /\ total = 0
        /\ stage = ""
        /\ needs_to_act = <<>>
        /\ turn = NoSeat
        /\ host_sock = <<>>
        /\ out = << Broadcast("INFO"), Broadcast("LOBBY_STATUS"), Send(0, "HOST_LOBBY"),
                    BroadcastExcl("INFO", 0) >>
        /\ last_action = ""
        /\ last_claim = 0 - 1
        /\ last_amount = 0
        /\ raises = 0
        /\ last_raiser = NoSeat
        /\ acted_since = {}
        /\ round_start_total = 0
        /\ winners = {}
        /\ paid_pot = 0
        /\ scen = 0
        /\ eval_hand = <<>>
        /\ eval_result = NoResult
        /\ cl_pc = "top"
        /\ ls_pc = "recv"
        /\ host_event = FALSE
        /\ is_host = FALSE
        /\ game_started = FALSE
        /\ inbox = << "INFO", "LOBBY_STATUS", "HOST_LOBBY" >>

ClientNext ==
    \/ ServeLobby
    \/ ListenerReads
    \/ ListenerSets
    \/ MainTop
    \/ PollTimeout
    \/ WaitReturns
    \/ ClearEvent
    \/ HostTypes

\* every thread that can take a step takes one: the main thread and the
\* listener of the client, the host's thread of the server; and a host
\* shown the prompt types a command
ClientFairSpec ==
    /\ ClientInit /\ [][ClientNext]_vars
    /\ WF_vars(MainTop \/ PollTimeout \/ WaitReturns \/ ClearEvent)
    /\ WF_vars(ListenerReads \/ ListenerSets)
    /\ WF_vars(ServeLobby)
    /\ WF_vars(HostTypes)

\* the cards score_five is run on: those of EvalPool and 3d 4s 5h, which
\* with 2c and an ace make the wheel
ScorePool == EvalPool \o << Card(1, 2), Card(2, 0), Card(3, 1) >>

\* the hands of five distinct cards of that pool
ScoreHands ==
    {SubSeqAt(ScorePool, S) : S \in {T \in SUBSET DOMAIN ScorePool : Cardinality(T) = 5}}

\* The evaluator on its own: a hand of five to seven distinct cards is given
\* to evaluate_hand; nothing else of the server runs.
EvalInit ==
    /\ eval_hand \in EvalHands
    /\ eval_result = NoResult
    /\ players = <<>>
    /\ player_order = <<>>
    /\ deck = <<>>
    /\ pot = 0
    /\ current_bet = 0
    /\ community = <<>>
    /\ max_players = DefaultPlayers
    /\ starting_chips = DefaultChips
    /\ num_rounds = DefaultRounds
    /\ lobby_open = TRUE
    /\ lobby_ready = FALSE
    /\ acc_pc = "accept"
    /\ conns = 0
    /\ released = {}
    /\ hung_up = {}
    /\ last_value = NoValue
    /\ play_again_event = FALSE
    /\ play_again_vote = "None"
    /\ pc = "no_host"
    /\ rnd = 0
    /\ total = 0
    /\ stage = ""
    /\ needs_to_act = <<>>
    /\ turn = NoSeat
    /\ host_sock = <<>>
    /\ out = <<>>
    /\ last_action = ""
    /\ last_claim = 0 - 1
    /\ last_amount = 0
    /\ raises = 0
    /\ last_raiser = NoSeat
    /\ acted_since = {}
    /\ round_start_total = 0
    /\ winners = {}
    /\ paid_pot = 0
    /\ scen = 0
    /\ NoClient

\* the call evaluate_hand(hand) returns
Evaluate ==
    /\ eval_result = NoResult
    /\ eval_result' = evaluate_hand(eval_hand)
    /\ UNCHANGED << eval_hand, tableVars, lobbyVars, clientVars, voteVars, driverVars, host_sock, out,
                    last_action, last_claim, last_amount, ghostVars >>

EvalNext == Evaluate

EvalSpec == EvalInit /\ [][EvalNext]_vars

\* score_five on its own: a hand of five distinct cards is given to it
ScoreInit ==
    /\ eval_hand \in ScoreHands
    /\ eval_result = NoResult
    /\ players = <<>>
    /\ player_order = <<>>
    /\ deck = <<>>
    /\ pot = 0
    /\ current_bet = 0
    /\ community = <<>>
    /\ max_players = DefaultPlayers
    /\ starting_chips = DefaultChips
    /\ num_rounds = DefaultRounds
    /\ lobby_open = TRUE
    /\ lobby_ready = FALSE
    /\ acc_pc = "accept"
    /\ conns = 0
    /\ released = {}
    /\ hung_up = {}
    /\ last_value = NoValue
    /\ play_again_event = FALSE
    /\ play_again_vote = "None"
    /\ pc = "no_host"
    /\ rnd = 0
    /\ total = 0
    /\ stage = ""
    /\ needs_to_act = <<>>
    /\ turn = NoSeat
    /\ host_sock = <<>>
    /\ out = <<>>
    /\ last_action = ""
    /\ last_claim = 0 - 1
    /\ last_amount = 0
    /\ raises = 0
    /\ last_raiser = NoSeat
    /\ acted_since = {}
    /\ round_start_total = 0
    /\ winners = {}
    /\ paid_pot = 0
    /\ scen = 0
    /\ NoClient

\* the call score_five(hand) returns
Score ==
    /\ eval_result = NoResult
    /\ eval_result' = score_five(eval_hand)
    /\ UNCHANGED << eval_hand, tableVars, lobbyVars, clientVars, voteVars, driverVars, host_sock, out,
                    last_action, last_claim, last_amount, ghostVars >>

ScoreNext == Score

ScoreSpec == ScoreInit /\ [][ScoreNext]_vars

\* the lobby: the accept loop, the host's thread in run_lobby, the threads of
\* the other seats and their clients
LobbyNext ==
    \/ AcceptTimeout
    \/ AcceptConnection
    \/ NameHandshake
    \/ ClientHangsUp
    \/ LobbyCommand
    \/ HostDisconnects
    \/ Release

LobbySpec == LobbyInit /\ [][LobbyNext]_vars

\* ------------------------------------------------------------ properties
InHand(pl) == SeqToSet(ActiveInHand(pl))

\* the step is start_round's dealing and posting of the blinds
BlindsStep == pc = "round_loop" /\ pc' = "street_begin"

\* the step handles what receive_line returned for the seat on action
ActionStep == pc = "prompt"

\* the step is resolve_winner
ResolveStep == pc = "street_done" /\ pc' = "round_loop"

\* C1: every betting step (an action of the seat on action, accepted or
\* rejected, a cheat kick, a disconnect, the posting of the blinds) leaves
\* sum(chips) + pot unchanged, takes chips from no pot and gives chips to no seat.
C1_BettingStepConservesChips ==
    [][ (ActionStep \/ BlindsStep) =>
            /\ Total(players', pot') = Total(players, pot)
            /\ pot' >= pot
            /\ \A pid \in DOMAIN players : players'[pid].chips <= players[pid].chips ]_vars

\* a BET was applied and later called: chips have moved into the pot
C1_Witness ==
    /\ last_action = "CALL"
    /\ raises >= 1
    /\ pot > 2 * blind
    /\ \E pid \in DOMAIN players : players[pid].active /\ players[pid].chips = 0

\* chips lost by the round that was just resolved
RoundLoss == round_start_total - Total(players, pot)

RoundResolved == pc = "round_loop" /\ rnd > 1

\* C2: after resolution the sum of chips and pot is the sum before the round,
\* except that a pot split among k winners loses at most k - 1 chips.
C2_RoundConservesChips ==
    RoundResolved =>
        IF Cardinality(winners) >= 2
        THEN RoundLoss >= 0 /\ RoundLoss <= Cardinality(winners) - 1
        ELSE RoundLoss = 0

\* a split pot that lost a chip
C2_Witness == RoundResolved /\ Cardinality(winners) = 2 /\ RoundLoss = 1

\* C3: when a street completes with two or more contenders after a BET/RAISE,
\* every contender but the last raiser has taken a terminal action after it.
C3_RaiseReopensStreet ==
    (pc = "street_done" /\ Len(active_in_hand) >= 2 /\ last_raiser # NoSeat) =>
        \A pid \in InHand(players) \ {last_raiser} : pid \in acted_since

\* seat 1 raised after seat 0 had acted, and the street completed with three
\* seats in the hand
C3_Witness ==
    /\ pc = "street_done"
    /\ last_raiser = 1
    /\ InHand(players) = {0, 1, 2}
    /\ acted_since = {0, 2}

\* C4: a CHECK by a seat whose wager is below the current bet changes no
\* chips, pot, wager, current bet, flag or queue, sends ERROR to that seat and
\* prompts the same seat again.
C4_CheckRejected ==
    [][ (ActionStep /\ last_action' = "CHECK" /\ players[turn].bet < current_bet) =>
            /\ UNCHANGED << players, pot, current_bet, needs_to_act, turn, pc >>
            /\ out' = << Send(turn, "ERROR"), Send(turn, "YOUR_TURN") >> ]_vars

\* a CHECK was just rejected
C4_Witness ==
    /\ pc = "prompt"
    /\ last_action = "CHECK"
    /\ players[turn].bet < current_bet
    /\ out = << Send(turn, "ERROR"), Send(turn, "YOUR_TURN") >>

\* seats in the order they joined (a pid is the position in player_order)
JoinOrdered(q) == \A i, j \in DOMAIN q : i < j => q[i] < q[j]

\* the step applied a BET/RAISE
RaiseStep == ActionStep /\ raises' = raises + 1

\* C5: seats are prompted in seat-join order; a raise keeps the queued seats
\* in place and appends every other contender but the raiser in join order;
\* nothing else adds to the queue, and the head of the queue is prompted next.
C5_QueueOrder ==
    [][ /\ (last_raiser = NoSeat /\ pc \in {"pop", "prompt"}) =>
                /\ JoinOrdered(needs_to_act)
                /\ pc = "prompt" => \A i \in DOMAIN needs_to_act : turn < needs_to_act[i]
        /\ (RaiseStep /\ pc' = "pop") =>
                needs_to_act' = needs_to_act \o
                    SelectSeq(player_order,
                              LAMBDA o : /\ o # turn
                                         /\ o \in InHand(players')
                                         /\ o \notin SeqToSet(needs_to_act))
        /\ (ActionStep /\ ~RaiseStep /\ pc' = "pop") => needs_to_act' = needs_to_act
        /\ (pc = "pop" /\ needs_to_act # <<>>) =>
                /\ turn' = Head(needs_to_act)
                /\ needs_to_act' = Tail(needs_to_act) ]_vars

\* seat 1 raised with seat 2 queued, and seat 0 was queued again behind it
C5_Witness ==
    /\ pc = "pop"
    /\ last_raiser = 1
    /\ turn = 1
    /\ needs_to_act = << 2, 0 >>

\* two hole cards of different ranks
Unpaired(hand) == Len(hand) = 2 /\ rv(hand[1]) # rv(hand[2])

\* C6 (as claimed): a seat with two unpaired hole cards and no community
\* cards whose valid BET/RAISE claimed a score of 1 or more is deactivated.
C6_FalseClaimDeactivates ==
    (last_action = "BET" /\ last_claim >= 1 /\ community = <<>>
        /\ Unpaired(players[turn].hand)) =>
            ~players[turn].active /\ players[turn].folded

\* C7 (as claimed): a decision the host sends after it was asked is
\* eventually acted on: the next game starts or the session is closed.
C7_HostDecisionActedOn ==
    (pc = "wait_decision" /\ host_sock # <<>> /\ Head(host_sock) \in Decisions)
        ~> (pc \in {"session", "closed"})

\* C8 (as claimed): after scenario A the pot paid to seat 0 is 220 and seat 1
\* has 70 chips less than it started with.
C8_ScenarioA_AsClaimed ==
    scen = 8 => /\ winners = {0}
                /\ paid_pot = 220
                /\ players[1].chips = starting_chips - 70

\* C8 (amended): after scenario A the pot paid to seat 0 is 220, seat 0 ends
\* with 1060 chips and seat 1 has 60 chips less than it started with (10 + 50).
C8_ScenarioA ==
    scen = 8 => /\ winners = {0}
                /\ paid_pot = 220
                /\ players[0].chips = starting_chips + 60
                /\ players[1].chips = starting_chips - 60

\* scenario A was played to its end
C8_Witness == scen = 8 /\ starting_chips = 1000 /\ pc = "round_loop"

\* the contenders no contender outscores, given (score, pid) of each
TopSeats(scores) ==
    {r[2] : r \in {x \in SeqToSet(scores) : \A y \in SeqToSet(scores) : x[1] >= y[1]}}

ShowdownStep == ResolveStep /\ Len(active_in_hand) >= 2

\* C9: at a showdown with exactly one contender of maximum score that seat is
\* credited the whole pot, no other stack changes, the pot becomes 0.
C9_UniqueTopTakesPot ==
    [][ ShowdownStep =>
            \A scores \in {Results(active_in_hand)} :
                Cardinality(TopSeats(scores)) = 1 =>
                    /\ pot' = 0
                    /\ \A pid \in DOMAIN players :
                        players'[pid].chips =
                            IF pid \in TopSeats(scores)
                            THEN players[pid].chips + pot
                            ELSE players[pid].chips ]_vars

\* a showdown of a Flush, a Straight and a Pair that the Flush won
C9_Witness ==
    /\ RoundResolved
    /\ out = << Send(NoSeat, "SHOWDOWN"), Broadcast("REVEAL"), Broadcast("WINNER") >>
    /\ InHand(players) = {0, 1, 2}
    /\ ShowdownScore(0) = 5 /\ ShowdownScore(1) = 4 /\ ShowdownScore(2) = 1
    /\ winners = {0}
    /\ paid_pot > 0

\* C10: at a showdown with k >= 2 contenders of maximum score each of them is
\* credited floor(pot / k), no other stack changes, the pot becomes 0 (so
\* pot mod k chips go to nobody).
C10_TieSplitsPot ==
    [][ ShowdownStep =>
            \A scores \in {Results(active_in_hand)} :
                LET k == Cardinality(TopSeats(scores)) IN
                k >= 2 =>
                    /\ pot' = 0
                    /\ \A pid \in DOMAIN players :
                        players'[pid].chips =
                            IF pid \in TopSeats(scores)
                            THEN players[pid].chips + (pot \div k)
                            ELSE players[pid].chips
                    /\ Total(players', pot') = Total(players, pot) - (pot % k) ]_vars

\* a pot of 101 was split between two seats tied on Two Pair
C10_Witness ==
    /\ RoundResolved
    /\ winners = {0, 1}
    /\ paid_pot = 101
    /\ ShowdownScore(0) = 2 /\ ShowdownScore(1) = 2
    /\ players[0].chips + players[1].chips = 2 * starting_chips - 1

\* ------------------------------------------------------------ lobby properties
\* a step of run_lobby that read a command of the host
LobbyStep == pc = "lobby" /\ last_action' \in LobbyCmds

\* the value is a number (or text spelling one) inside the limits the host
\* is told: PLAYERS 2..6, CHIPS from 50, ROUNDS 1..20; x10 is ten times the number
WithinStated(cmd, val) ==
    /\ val.t \in {"int", "str", "float"}
    /\ \E x10 \in {IF val.t = "float" THEN val.v ELSE 10 * val.v} :
        CASE cmd = "PLAYERS" -> 20 <= x10 /\ x10 <= 60
          [] cmd = "CHIPS"   -> 500 <= x10
          [] cmd = "ROUNDS"  -> 10 <= x10 /\ x10 <= 200
          [] OTHER           -> FALSE

\* C11: a PLAYERS value outside 2..6, a CHIPS value below 50, a ROUNDS value
\* outside 1..20, a value that is not a number and a command that is not known
\* are rejected: the three configuration fields keep their values and the
\* lobby stays open.
C11_BadCommandRejected ==
    [][ (LobbyStep /\ last_action' # "START"
            /\ ~WithinStated(last_action', last_value'))
        => /\ UNCHANGED << max_players, starting_chips, num_rounds >>
           /\ lobby_open' /\ ~lobby_ready' /\ pc' = "lobby" ]_vars

\* run_lobby accepted START
StartAccepted == pc = "lobby" /\ pc' = "session"

\* C12: START closes the lobby and releases the waiting seats only when at
\* least two seats are connected at that moment, with fewer it is rejected;
\* and no other seat leaves its wait in the lobby before an accepted START.
C12_StartNeedsTwoConnected ==
    [][ /\ StartAccepted => Cardinality(Connected) >= 2
        /\ (LobbyStep /\ last_action' = "START" /\ Cardinality(Connected) < 2)
                => (lobby_open' /\ ~lobby_ready' /\ pc' = "lobby")
        /\ (released' # {}) => ~lobby_open' ]_vars

\* C13: once START has closed the lobby no seat is added any more, whatever
\* the interleaving of the accept loop with the host's thread.
C13_NoSeatAfterStart ==
    [][ ~lobby_open => player_order' = player_order /\ DOMAIN players' = DOMAIN players ]_vars

\* C17: when the host's connection drops in the lobby the whole process is
\* over: the accept loop takes no further step, no further join is accepted
\* and no session is ever started.
C17_HostExitAborts ==
    [][ pc = "exited"
        => /\ acc_pc' = acc_pc /\ conns' = conns
           /\ player_order' = player_order
           /\ pc' = "exited" /\ ~lobby_ready' ]_vars

\* ------------------------------------------------------------ table properties
\* the step in which receive_line returned None for the seat on action
DisconnectStep == pc = "prompt" /\ last_action' = "<EOF>"

\* C14: a seat that disconnects while it is on action is folded and inactive
\* at once, no chip moves (stacks, wagers, pot and current bet stay), the other
\* seats are untouched, and the street goes on with the queue as it was, or
\* ends if fewer than two seats are left in the hand.
C14_DisconnectFolds ==
    [][ DisconnectStep
        => /\ players'[turn] = [players[turn] EXCEPT !.active = FALSE, !.folded = TRUE]
           /\ \A q \in DOMAIN players \ {turn} : players'[q] = players[q]
           /\ pot' = pot /\ current_bet' = current_bet
           /\ IF Cardinality(InHand(players')) < 2
              THEN pc' = "street_done"
              ELSE pc' = "pop" /\ needs_to_act' = needs_to_act ]_vars

\* a seat disconnected on action, two seats are left and one of them is queued
C14_Witness ==
    /\ last_action = "<EOF>"
    /\ pc = "pop"
    /\ ~players[turn].active /\ players[turn].folded
    /\ Cardinality(InHand(players)) = 2
    /\ needs_to_act # <<>>

\* the table a play-again reset followed by the deal and the blinds of the
\* next round would leave
AfterReset(pl) ==
    LET dealt == Deal(reset_for_new_game(pl), create_deck(1), player_order).players
    IN  [pid \in DOMAIN pl |-> PostBlind(dealt[pid])]

\* C15: a seat that is inactive stays inactive in every step, and the reset
\* of a new game keeps it inactive; in no step is it dealt cards, does it
\* post a blind or put chips in, is it prompted, or is it credited a pot.
C15_InactiveForGood ==
    [][ \A pid \in DOMAIN players :
            ~players[pid].active
            => /\ ~players'[pid].active
               /\ ~reset_for_new_game(players)[pid].active
               /\ pid \notin InHand(reset_for_new_game(players))
               /\ AfterReset(players)[pid] = reset_for_new_game(players)[pid]
               /\ players'[pid].hand = players[pid].hand
               /\ players'[pid].chips = players[pid].chips
               /\ players'[pid].bet <= players[pid].bet
               /\ pc' = "prompt" => turn' # pid
               /\ \A i \in DOMAIN out' : out'[i] # Send(pid, "YOUR_TURN")
               /\ pid \notin winners' ]_vars

\* a round was dealt, bet and resolved at showdown while seat 2 was inactive:
\* the two other seats hold new cards and one of them was paid
C15_Witness ==
    /\ ~players[2].active
    /\ pc = "round_loop" /\ rnd = 3
    /\ paid_pot > 2 * blind
    /\ winners # {} /\ winners \subseteq {0, 1}
    /\ players[0].chips + players[1].chips = 3 * 51 - (51 - blind)

\* the step in which the driver read a record it does not understand
MalformedStep == pc = "prompt" /\ last_action' \in MalformedKinds \cup {"DANCE"}

\* C16: an unrecognized or malformed action message (unknown verb, action
\* field missing or not text, claimed_score not an integer, record that is
\* not an object) changes nothing at the table, is answered with an error to
\* that seat alone and a new prompt, and never folds the seat or stops the
\* driver.
C16_MalformedReprompted ==
    [][ MalformedStep
        => /\ UNCHANGED << tableVars, needs_to_act, turn >>
           /\ pc' = "prompt"
           /\ out' = << Send(turn, "ERROR"), Send(turn, "YOUR_TURN") >> ]_vars

\* ------------------------------------------------------------ evaluator properties
\* C18: for every hand of five, six or seven distinct cards the score of
\* evaluate_hand is at least the score_five of each of its five-card subsets
\* and equal to the score_five of one of them; on five cards evaluate_hand
\* returns the score and the label of score_five.
C18_BestOfFive ==
    eval_result # NoResult
    => /\ \A S \in Combinations5(Len(eval_hand)) :
            eval_result[1] >= score_five(SubSeqAt(eval_hand, S))[1]
       /\ \E S \in Combinations5(Len(eval_hand)) :
            eval_result = score_five(SubSeqAt(eval_hand, S))
       /\ Len(eval_hand) = 5 => eval_result = score_five(eval_hand)
       /\ eval_result[1] \in 0..9

\* evaluate_hand returned Four of a Kind for seven cards of which the first
\* five make One Pair
C18_Witness ==
    /\ Len(eval_hand) = 7
    /\ eval_result = Scored(7)
    /\ score_five(SubSeq(eval_hand, 1, 5)) = Scored(1)

\* ------------------------------------------------------------ street properties
\* betting_round has returned
StreetDone == pc = "street_done"

\* C19 as stated: when a street completes, the wager of every seat that is
\* active and has not folded equals the current bet.
C19_AllMatched ==
    StreetDone => \A pid \in InHand(players) : players[pid].bet = current_bet

\* C19: when a street completes, every seat that is active and has not
\* folded has either matched the current bet or is all-in: its stack is
\* empty and its wager is below the current bet.
C19_MatchedOrAllIn ==
    StreetDone
    => \A pid \in InHand(players) :
            \/ players[pid].bet = current_bet
            \/ players[pid].chips = 0 /\ players[pid].bet < current_bet

\* a street completed with two seats in the hand, one of them all-in for
\* less than the current bet
C19_Witness ==
    /\ StreetDone
    /\ Cardinality(InHand(players)) = 2
    /\ \E pid \in InHand(players) :
            /\ players[pid].chips = 0
            /\ 0 < players[pid].bet /\ players[pid].bet < current_bet
    /\ \E pid \in InHand(players) : players[pid].bet = current_bet

\* the driver is inside a betting_round
InStreet(at) == at \in {"street_begin", "pop", "prompt"}

\* a message of the step that prompts a seat or shows a community card
Prompting(msg) == msg[2] \in {"TURN", "YOUR_TURN", "COMMUNITY"}

\* C20: as soon as fewer than two seats of a round are active and not folded
\* the driver is out of the betting round, and its next step is the
\* resolution: no seat is prompted, no community card is dealt and the
\* streets that remain are skipped.
C20_ShortHandResolves ==
    [][ /\ InStreet(pc') => Cardinality(InHand(players')) >= 2
        /\ (StreetDone /\ Cardinality(InHand(players)) < 2)
            => /\ ResolveStep
               /\ community' = community /\ deck' = deck /\ stage' = stage
               /\ \A i \in DOMAIN out' : ~Prompting(out'[i]) ]_vars

\* a round was resolved on the Flop with one seat left in the hand: the Turn
\* and the River were never dealt
C20_Witness ==
    /\ pc = "round_loop" /\ rnd > 1
    /\ stage = "Flop" /\ Len(community) = 3
    /\ Cardinality(InHand(players)) = 1
    /\ winners = InHand(players)

\* ------------------------------------------------------------ action properties
\* the step in which handle_action read a BET or RAISE of the seat on action
BetStep == pc = "prompt" /\ last_action' = "BET"

\* C21: a successful BET/RAISE of a positive amount moves exactly
\* (current bet - wager of the seat) + amount chips from the seat to the pot,
\* and the seat's wager and the current bet both become the seat's new
\* wager, which is above the former current bet; the other seats are
\* untouched.  A BET/RAISE for which the seat has fewer chips than that is
\* rejected: nothing at the table changes and the seat is prompted again.
C21_BetMovesCallPlusAmount ==
    [][ (BetStep /\ last_amount' > 0)
        => \E needed \in {(current_bet - players[turn].bet) + last_amount'} :
            /\ RaiseStep
                => /\ players'[turn] = [players[turn] EXCEPT !.chips = @ - needed,
                                                             !.bet = @ + needed]
                   /\ \A q \in DOMAIN players \ {turn} : players'[q] = players[q]
                   /\ pot' = pot + needed
                   /\ current_bet' = players'[turn].bet
                   /\ current_bet' > current_bet
                   /\ players'[turn].chips >= 0
            /\ players[turn].chips < needed
                => /\ UNCHANGED << tableVars, needs_to_act, turn >>
                   /\ pc' = "prompt"
                   /\ out' = << Send(turn, "ERROR"), Send(turn, "YOUR_TURN") >> ]_vars

\* a seat facing a bet of 50 raised by 50: it paid 100 and the current bet is 100
C21_Witness ==
    /\ last_action = "BET" /\ last_amount = 50
    /\ raises = 2 /\ last_raiser = turn
    /\ current_bet = 100 /\ players[turn].bet = 100
    /\ players[turn].chips = DefaultChips - blind - 100

\* the step in which handle_action read a CALL of the seat on action
CallStep == pc = "prompt" /\ last_action' = "CALL"

\* C22: a CALL moves exactly min(current bet - wager of the seat, stack of
\* the seat) chips from the seat to the pot and adds them to the seat's wager;
\* the current bet, the other seats and the queue stay as they are and
\* nothing is reopened; with nothing to call no chip moves.
C22_CallMovesCappedAmount ==
    [][ CallStep
        => \E paid \in {Min({current_bet - players[turn].bet, players[turn].chips})} :
            /\ players'[turn] = [players[turn] EXCEPT !.chips = @ - paid, !.bet = @ + paid]
            /\ \A q \in DOMAIN players \ {turn} : players'[q] = players[q]
            /\ pot' = pot + paid
            /\ current_bet' = current_bet
            /\ needs_to_act' = needs_to_act /\ pc' = "pop"
            /\ raises' = raises /\ last_raiser' = last_raiser
            /\ current_bet = players[turn].bet => paid = 0
            /\ paid >= 0 ]_vars

\* a seat called all-in for less than the bet it faced
C22_Witness ==
    /\ last_action = "CALL" /\ pc = "pop"
    /\ players[turn].chips = 0
    /\ players[turn].bet > 0 /\ players[turn].bet < current_bet

\* ------------------------------------------------------------ chip invariants
\* C23: in every reachable state every stack, every wager and the pot are
\* integers that are not negative.
C23_NoNegativeChips ==
    /\ pot \in Nat
    /\ current_bet \in Nat
    /\ \A pid \in DOMAIN players : players[pid].chips \in Nat /\ players[pid].bet \in Nat

\* a round was resolved in which a seat put its last chip in and lost it
C23_Witness ==
    /\ pc = "round_loop" /\ rnd > 1
    /\ \E pid \in DOMAIN players : players[pid].chips = 0 /\ players[pid].active
    /\ paid_pot > 0

\* ------------------------------------------------------------ street start
\* betting_round up to its while loop
StreetStart == pc = "street_begin"

\* the seat on action is the first to be prompted in this street
FirstToAct == pc = "prompt" /\ acted_since = {} /\ last_raiser = NoSeat

\* C24: at the start of every street, Pre-Flop after the blinds included,
\* the current bet and every seat's wager are 0 and the queue holds exactly
\* the seats that are active and not folded, in seat-join order; so the
\* first seat to act has nothing to call and its CHECK is accepted.
C24_StreetStartsAtZero ==
    [][ /\ StreetStart
            => /\ current_bet' = 0
               /\ \A pid \in DOMAIN players : players'[pid].bet = 0
               /\ needs_to_act' = ActiveInHand(players')
               /\ JoinOrdered(needs_to_act')
               /\ pot' = pot
        /\ FirstToAct
            => /\ call_amount(players[turn], current_bet) = 0
               /\ last_action' = "CHECK" => pc' = "pop" /\ UNCHANGED tableVars ]_vars

\* Pre-Flop of a three-seat round: the blinds are in the pot and the first
\* seat has checked
C24_Witness ==
    /\ stage = "Pre-Flop" /\ last_action = "CHECK" /\ pc = "pop"
    /\ acted_since = {0} /\ needs_to_act = << 1, 2 >>
    /\ pot = 3 * blind /\ current_bet = 0
    /\ \A pid \in DOMAIN players : players[pid].bet = 0

\* ------------------------------------------------------------ blinds
\* the active seats that can post the blind
CanPost(pl) == {pid \in DOMAIN pl : pl[pid].active /\ pl[pid].chips >= blind}

\* C25: at the start of a round every active seat with at least 10 chips
\* pays exactly 10 chips into the pot; an active seat with fewer pays
\* nothing, and is dealt two cards all the same and is in the hand, neither
\* folded nor deactivated.
C25_BlindsAndShortStacks ==
    [][ BlindsStep
        => /\ pot' = blind * Cardinality(CanPost(players))
           /\ \A pid \in DOMAIN players :
                players[pid].active
                => /\ players'[pid].chips =
                        players[pid].chips - (IF pid \in CanPost(players) THEN blind ELSE 0)
                   /\ players'[pid].active /\ ~players'[pid].folded
                   /\ pid \in InHand(players')
                   /\ Len(players'[pid].hand) = 2
                   /\ \A i \in 1..2 : players'[pid].hand[i] \notin SeqToSet(deck') ]_vars

\* a round has just begun with an active seat that could not post the blind:
\* it holds two cards, is in the hand and has paid nothing
C25_Witness ==
    /\ StreetStart /\ stage = "Pre-Flop" /\ rnd = 3
    /\ pot = blind
    /\ \E pid \in InHand(players) :
            players[pid].chips < blind /\ Len(players[pid].hand) = 2

\* ------------------------------------------------------------ cards
\* the hole cards stored on the seats, in seat-join order
RECURSIVE HoleCards(_)
HoleCards(order) ==
    IF order = <<>> THEN <<>> ELSE players[Head(order)].hand \o HoleCards(Tail(order))

\* every card of the table: the deck, the hole cards of all seats, the community cards
AllCards == deck \o HoleCards(player_order) \o community

\* the driver is inside start_round, past the deal
InRound == pc \in {"street_begin", "pop", "prompt", "street_done"}

\* C26: at every point of a round no card appears twice across the deck, the
\* hole cards stored on all seats (inactive seats that were not dealt
\* included) and the community cards, and all 52 cards are among them.
C26_NoCardTwice ==
    InRound
    => /\ Cardinality(SeqToSet(AllCards)) = Len(AllCards)
       /\ SeqToSet(AllCards) = 0..51

\* ------------------------------------------------------------ rounds of a game
\* the top of the for loop of run_game_session
RoundLoop == pc = "round_loop"

\* C27: a round is started only while its number is within the configured
\* number of rounds and at least two seats are active; with fewer than two
\* active seats the driver leaves the for loop without starting a round, and
\* the next thing it sends is the GAME_OVER standings.
C27_RoundsBoundedAndSkipped ==
    [][ /\ BlindsStep
            => /\ rnd <= num_rounds /\ rnd >= 1
               /\ Cardinality(ActiveSeats(players)) >= 2
        /\ (RoundLoop /\ Cardinality(ActiveSeats(players)) < 2)
            => pc' = "game_over" /\ UNCHANGED << tableVars, rnd >>
        /\ (RoundLoop /\ rnd > num_rounds) => pc' = "game_over"
        /\ pc = "game_over"
            => out' # <<>> /\ out'[1] = Broadcast("GAME_OVER") ]_vars

\* round 2 of 2 was skipped: one seat is left active and the game is over
C27_Witness ==
    /\ pc = "wait_decision"
    /\ rnd = 2 /\ total = 2 /\ num_rounds = 2
    /\ Cardinality(ActiveSeats(players)) = 1
    /\ out # <<>> /\ out[1] = Broadcast("GAME_OVER")

\* ------------------------------------------------------------ intercepted messages
\* the step in which betting_round read a HOST_DECISION_RESPONSE from the
\* seat on action
InterceptStep == pc = "prompt" /\ last_action' = "HOST_DECISION_RESPONSE"

\* C28: a host-decision message read from the seat on action is not taken
\* for a betting action: the table (stacks, wagers, flags, pot, current bet),
\* the queue and the seat on action are unchanged, and that seat is prompted
\* again.
C28_HostDecisionIntercepted ==
    [][ InterceptStep
        => /\ UNCHANGED << tableVars, needs_to_act, turn >>
           /\ pc' = "prompt"
           /\ out' = << Send(turn, "YOUR_TURN") >> ]_vars

\* ------------------------------------------------------------ category ladder
\* how many cards of the hand have rank r, and its ranks and suits
RankCount(hand, r) == Cardinality({i \in DOMAIN hand : rv(hand[i]) = r})

Ranks(hand) == {rv(hand[i]) : i \in DOMAIN hand}

IsFlush(hand) == \A i, j \in DOMAIN hand : suit(hand[i]) = suit(hand[j])

\* five distinct ranks whose maximum minus minimum is 4
IsStraight(hand) ==
    /\ Cardinality(Ranks(hand)) = 5
    /\ \E lo \in Ranks(hand) : Ranks(hand) = lo..(lo + 4)

\* the hand meets the definition of the category with score k
Meets(k, hand) ==
    CASE k = 9 -> IsFlush(hand) /\ IsStraight(hand) /\ 12 \in Ranks(hand)
      [] k = 8 -> IsFlush(hand) /\ IsStraight(hand)
      [] k = 7 -> \E r \in Ranks(hand) : RankCount(hand, r) = 4
      [] k = 6 -> \E r, s \in Ranks(hand) : RankCount(hand, r) = 3 /\ RankCount(hand, s) = 2
      [] k = 5 -> IsFlush(hand)
      [] k = 4 -> IsStraight(hand)
      [] k = 3 -> \E r \in Ranks(hand) : RankCount(hand, r) >= 3
      [] k = 2 -> \E r, s \in Ranks(hand) :
                        r # s /\ RankCount(hand, r) >= 2 /\ RankCount(hand, s) >= 2
      [] k = 1 -> \E r \in Ranks(hand) : RankCount(hand, r) >= 2
      [] OTHER -> TRUE

\* C29: for every five distinct cards score_five returns the score and the
\* name of the highest category of the ladder (Royal Flush 9 down to High
\* Card 0) whose definition the hand meets; a straight is five distinct ranks
\* with maximum minus minimum 4, so A-2-3-4-5 is none.
C29_HighestCategory ==
    eval_result # NoResult
    => /\ eval_result = Scored(Max({k \in 0..9 : Meets(k, eval_hand)}))
       /\ (Ranks(eval_hand) = {0, 1, 2, 3, 12} /\ ~IsFlush(eval_hand))
            => eval_result = << 0, "High Card" >>

\* score_five returned High Card for the wheel 2c 3d 4s 5h with an ace
C29_Witness ==
    /\ Ranks(eval_hand) = {0, 1, 2, 3, 12}
    /\ eval_result = << 0, "High Card" >>

\* ------------------------------------------------------------ resolution
\* C30: whenever resolve_winner runs at least one seat is active and not
\* folded: the pot is never dropped for want of a contender, the seats
\* credited are contenders and each is credited its share of the pot.
C30_SomeContenderAtResolution ==
    [][ ResolveStep
        => /\ InHand(players) # {}
           /\ winners' # {} /\ winners' \subseteq InHand(players)
           /\ \A pid \in winners' :
                players'[pid].chips = players[pid].chips + pot \div Cardinality(winners')
           /\ out' # << Broadcast("INFO") >> ]_vars

\* Pre-Flop of a three-seat round: two seats folded and the third took the pot
C30_Witness ==
    /\ pc = "round_loop" /\ rnd > 1
    /\ stage = "Pre-Flop" /\ community = <<>>
    /\ Len(player_order) = 3
    /\ Cardinality({pid \in DOMAIN players : players[pid].folded /\ players[pid].active}) = 2
    /\ Cardinality(winners) = 1 /\ winners = InHand(players)
    /\ paid_pot >= 3 * blind

\* ------------------------------------------------------------ claimed scores
\* the step in which handle_action read a BET or RAISE that passed the
\* amount and stack tests and carries a claimed_score of 0 or more
ClaimedBetStep ==
    /\ BetStep
    /\ last_amount' > 0
    /\ total_needed(players[turn], current_bet, last_amount') <= players[turn].chips
    /\ last_claim' >= 0

\* the step kicked the seat on action: KICKED to the seat, inactive and folded
KickedStep ==
    /\ ~players'[turn].active /\ players'[turn].folded
    /\ out' # <<>> /\ out'[1] = Send(turn, "KICKED")

\* C31 (as claimed): a valid BET/RAISE with a non-negative claimed_score is
\* resolved to exactly one of "seat kicked" and "bet applied" in every street
\* and for every pair of hole cards; the evaluation never stops the driver.
C31_ClaimedBetResolved ==
    [][ ClaimedBetStep
        => /\ pc' # "crashed"
           /\ KickedStep # RaiseStep ]_vars

\* the step in which cheat_check found the claim of a valid BET/RAISE above
\* the real score of the seat on action
FalseClaimStep ==
    /\ ClaimedBetStep
    /\ \E real \in {real_score(turn)} : real # IndexError /\ last_claim' > real

\* C32: when a false claim is detected on a BET/RAISE the seat is kicked and
\* the bet is not applied: its chips and wager, the other seats, the pot and
\* the current bet are unchanged, no seat is queued again, and the street
\* goes on to the next queued seat, or ends when fewer than two contenders
\* remain.
C32_FalseClaimNotApplied ==
    [][ FalseClaimStep
        => /\ KickedStep
           /\ players' = [players EXCEPT ![turn].active = FALSE, ![turn].folded = TRUE]
           /\ UNCHANGED << pot, current_bet, raises >>
           /\ IF Cardinality(InHand(players')) < 2
              THEN pc' = "street_done"
              ELSE pc' = "pop" /\ needs_to_act' = needs_to_act ]_vars

\* a false claim of one of three contenders: the seat is out with its chips
\* and wager as they were, and the street goes on with the queued seat
C32_Witness ==
    /\ pc = "pop" /\ last_action = "BET" /\ last_claim = 3
    /\ Len(player_order) = 3
    /\ ~players[turn].active /\ players[turn].folded
    /\ players[turn].chips = DefaultChips - blind /\ players[turn].bet = 0
    /\ pot = 3 * blind /\ current_bet = 0
    /\ Cardinality(InHand(players)) = 2
    /\ needs_to_act # <<>>

\* ------------------------------------------------------------ termination
\* the chips in the stacks of all seats
Stacks(pl) == SumOver(DOMAIN pl, Chips(pl))

\* from some point on a seat is prompted again and again: it never sends a
\* record that is not answered with a new prompt
EndlessPrompt == <>[](pc = "prompt")

\* C33: each successful BET/RAISE moves at least one chip from the stack of
\* the seat to the pot, so the BET/RAISE of a round are never more than the
\* chips in the pot; and unless a seat is prompted again and again for ever,
\* no betting street goes on for ever: the driver is out of it time and
\* again (the street ended, or the driver stopped).
C33_StreetTerminates ==
    /\ [][ RaiseStep
           => /\ Stacks(players') < Stacks(players)
              /\ pot' - pot = Stacks(players) - Stacks(players')
              /\ \A pid \in DOMAIN players : players'[pid].chips >= 0 ]_vars
    /\ [](InStreet(pc) => raises <= pot)
    /\ (EndlessPrompt \/ []<>(~InStreet(pc)))

\* a street that ended after three BET/RAISE, more than MaxRaises, took the
\* last chip of both contenders
C33_Witness ==
    /\ StreetDone /\ raises = 3 /\ raises > MaxRaises
    /\ Cardinality(InHand(players)) = 2
    /\ \A pid \in InHand(players) : players[pid].chips = 0
    /\ pot = blind + 6

\* ------------------------------------------------------------ lobby limits
\* C34 (as claimed): the number of seats at the table never exceeds the
\* configured max seats, whatever the order of joins and PLAYERS commands.
C34_SeatsWithinMax == Len(player_order) <= max_players

\* ------------------------------------------------------------ game start
\* the step in which run_game_session starts a game: the top of its while
\* loop, up to the for loop
GameStart == pc = "session" /\ pc' = "round_loop"

\* C35: when a game starts every seat has exactly the starting stack in
\* force, seats that joined under another starting stack included, with no
\* cards, no wager and not folded.
C35_StacksAtGameStart ==
    [][ GameStart
        => /\ DOMAIN players' = DOMAIN players
           /\ \A pid \in DOMAIN players' :
                /\ players'[pid].chips = starting_chips'
                /\ players'[pid].bet = 0
                /\ players'[pid].hand = <<>>
                /\ ~players'[pid].folded
           /\ UNCHANGED starting_chips ]_vars

\* the first game of two seats that joined with the default stack before the
\* host set CHIPS to 51: both have 51
C35_Witness ==
    /\ pc = "round_loop" /\ rnd = 1 /\ deck = <<>>
    /\ starting_chips = 51 /\ starting_chips # DefaultChips
    /\ Len(player_order) = 2
    /\ \A pid \in DOMAIN players : players[pid].chips = 51

\* ------------------------------------------------------------ host's client
\* a START is on its way to the server that the server will accept
StartOnItsWay ==
    /\ Len(player_order) >= 2
    /\ \E i \in DOMAIN host_sock : host_sock[i].cmd = "START"

\* C36 (as claimed): while the lobby is open the host's client, back at the
\* top of its main loop as the host with no START the server accepts on its
\* way, eventually shows the lobby prompt again: so after a PLAYERS, CHIPS or
\* ROUNDS command, or a START the server rejects, the host can send another.
C36_LobbyPromptAgain ==
    (cl_pc = "top" /\ is_host /\ lobby_open /\ ~StartOnItsWay) ~> (cl_pc = "prompt")

====
